---- MODULE Spec2Model ----
(***************************************************************************)
(* A model of dnstest's measurement pipeline:                              *)
(*   - the prober            SpeedTester::test_latency (dns/speedtest.rs)  *)
(*   - the scheduler         App::start_speed_test     (tui/app.rs)        *)
(*   - the aggregator        TestSummary::add_result   (dns/types.rs)      *)
(*   - the batch drivers     run_speed_test            (main.rs)           *)
(*                           SpeedTester::test_all     (dns/speedtest.rs)  *)
(*   - the comparator        PollutionChecker::check   (dns/pollution.rs)  *)
(* Latencies are f64 milliseconds in the source; here they are exact       *)
(* rationals [num, den] in lowest terms, so rounding is not modelled.      *)
(***************************************************************************)
EXTENDS Integers, Sequences, FiniteSets, TLC

VARIABLES
    servers,       \* App.dns_servers: the endpoints of the interactive consumer
    testing,       \* App.testing
    results,       \* App.results
    tested_count,  \* App.tested_count
    total_count,   \* App.total_count
    schedPc,       \* position of the scheduler task spawned by start_speed_test
    idx,           \* index of the next server of the scheduler's for loop
    permits,       \* free permits of the scheduler's semaphore
    tested,        \* the scheduler's AtomicUsize
    taskPc,        \* position of the task spawned for each server
    taskResult,    \* each task's local `result`
    taskCount,     \* each task's local `count`
    chan,          \* the messages sent on message_tx and not yet received, in order
    timedOut,      \* timeout_result.is_err()
    batch,         \* the batch driver run_speed_test: its position and locals
    summary,       \* a TestSummary being folded
    folded,        \* the outcomes folded into summary so far, in order
    probe,         \* one call of SpeedTester::test_latency: its position and locals
    cmp,           \* one call of PollutionChecker::check: its position and locals
    sort_mode,     \* App.sort_mode
    abandoned,     \* the tasks of earlier runs that are still running
    runs,          \* the number of runs started so far
    loader,        \* one call of ConfigLoader::from_args or ::merge
    probes         \* calls of test_latency that run at the same time

vars == <<servers, testing, results, tested_count, total_count, schedPc, idx,
          permits, tested, taskPc, taskResult, taskCount, chan, timedOut,
          batch, summary, folded, probe, cmp, sort_mode, abandoned,
          runs, loader, probes>>

----------------------------------------------------------------------------
(* Bounds of the model *)

\* the longest endpoint list
MaxServers == 3

\* the concurrency limit of the admission gate (MAX_CONCURRENT, 20 in
\* tui/app.rs line 264), scaled so that MaxServers endpoints reach it
MAX_CONCURRENT == 2

\* echo rounds of one probe: SpeedTester::new() sets ping_count to this
DEFAULT_PING_COUNT == 3

\* the longest sequence of outcomes folded into one summary
MaxFold == 4

\* elapsed milliseconds a successful round can measure
Elapsed == {10}

\* latencies, in milliseconds, of the successful outcomes folded into a summary
Latencies == {10, 20, 40}

----------------------------------------------------------------------------
(* Option and exact rationals *)

None == [some |-> FALSE]

Some(x) == [some |-> TRUE, val |-> x]

RECURSIVE GCD(_, _)
GCD(a, b) == IF b = 0 THEN a ELSE GCD(b, a % b)

\* the rational n/d (n >= 0, d > 0) in lowest terms
Rat(n, d) == LET g == GCD(n, d) IN [num |-> n \div g, den |-> d \div g]

RatLt(a, b) == a.num * b.den < b.num * a.den

RatLe(a, b) == a.num * b.den <= b.num * a.den

RatMin(a, b) == IF RatLt(b, a) THEN b ELSE a

RatMax(a, b) == IF RatLt(a, b) THEN b ELSE a

\* f64::mul_add(a, k, b) / n for an integer k and n > 0: (a * k + b) / n
RatMulAddDiv(a, k, b, n) ==
    Rat(a.num * k * b.den + b.num * a.den, a.den * b.den * n)

RECURSIVE SumSeq(_)
SumSeq(s) == IF s = <<>> THEN 0 ELSE Head(s) + SumSeq(Tail(s))

----------------------------------------------------------------------------
(* dns/types.rs: DnsServer and SpeedTestResult *)

\* DnsServer::new(name, ip); delay and status are not read by the pipeline
DnsServer(name, ip) == [name |-> name, ip |-> ip]

\* the i-th endpoint of the lists of the model: every kind of address occurs
ServerAt(i) ==
    CASE i % 4 = 1 -> DnsServer("Google", "8.8.8.8")
      [] i % 4 = 2 -> DnsServer("Cloudflare", "1.1.1.1")
      [] i % 4 = 3 -> DnsServer("Test", "invalid_ip")
      [] OTHER -> DnsServer("Loopback6", "::1")

\* str::parse::<IpAddr>: the address family of a literal, None if it is none
ParseIp(ip) ==
    CASE ip \in {"8.8.8.8", "1.1.1.1"} -> Some("v4")
      [] ip \in {"::1"} -> Some("v6")
      [] OTHER -> None

ip_addr(server) == ParseIp(server.ip)

success(server, latency_ms, packet_loss) ==
    [server |-> server, latency_ms |-> Some(latency_ms),
     packet_loss |-> packet_loss, success |-> TRUE, error |-> None]

\* (a failure that keeps a latency of zero)
failure_WithLatency(server, error) ==
    [server |-> server, latency_ms |-> Some(Rat(0, 1)),
     packet_loss |-> Rat(1, 1), success |-> FALSE, error |-> Some(error)]

failure(server, error) ==
    [server |-> server, latency_ms |-> None,
     packet_loss |-> Rat(1, 1), success |-> FALSE, error |-> Some(error)]

\* (a test that takes every failure for a timeout)
is_timeout_AnyFailure(result) == ~result.success

is_timeout(result) == ~result.success /\ result.error = Some("timeout")

----------------------------------------------------------------------------
(* dns/speedtest.rs: the prober *)

\* what one echo round can end in: Ok(Ok(reply)) after some elapsed time,
\* Ok(Err(e)) or Err(timeout)
RoundOutcome ==
    { [kind |-> "reply", elapsed |-> e] : e \in Elapsed }
    \cup { [kind |-> "error", elapsed |-> 0], [kind |-> "timeout", elapsed |-> 0] }

\* the rounds of one probe: ping_count outcomes, in order
Rounds == [1..DEFAULT_PING_COUNT -> RoundOutcome]

RECURSIVE ReplyLatencies(_, _)
\* the `latencies` vector after rounds 1..n
ReplyLatencies(rounds, n) ==
    IF n = 0 THEN <<>>
    ELSE IF rounds[n].kind = "reply"
         THEN Append(ReplyLatencies(rounds, n - 1), rounds[n].elapsed)
         ELSE ReplyLatencies(rounds, n - 1)

test_latency(server, rounds) ==
    IF ip_addr(server) = None
    THEN failure(server, "Invalid IP address")
    ELSE IF ip_addr(server) = Some("v6")
    THEN failure(server, "IPv6 not supported yet")
    ELSE LET latencies == ReplyLatencies(rounds, DEFAULT_PING_COUNT)
             success_count == Len(latencies)
             packet_loss == Rat(DEFAULT_PING_COUNT - success_count, DEFAULT_PING_COUNT)
         IN IF success_count > 0
            THEN success(server, Rat(SumSeq(latencies), Len(latencies)), packet_loss)
            ELSE failure(server, "timeout")

----------------------------------------------------------------------------
(* dns/types.rs: TestSummary, the aggregator *)

\* TestSummary::new()
NewSummary ==
    [total |-> 0, success |-> 0, failed |-> 0, timeout |-> 0,
     avg_latency |-> None, min_latency |-> None, max_latency |-> None]

\* (a fold that takes the latest latency for the minimum)
add_result_MinIsLatest(s, result) ==
    IF result.success
    THEN LET n == s.success + 1
             latency == result.latency_ms.val
         IN [s EXCEPT
               !.total = @ + 1,
               !.success = n,
               !.avg_latency =
                   IF s.avg_latency.some
                   THEN Some(RatMulAddDiv(s.avg_latency.val, n - 1, latency, n))
                   ELSE Some(latency),
               !.min_latency = Some(latency),
               !.max_latency =
                   IF s.max_latency.some
                   THEN Some(RatMax(s.max_latency.val, latency))
                   ELSE Some(latency)]
    ELSE IF is_timeout(result)
    THEN [s EXCEPT !.total = @ + 1, !.timeout = @ + 1]
    ELSE [s EXCEPT !.total = @ + 1, !.failed = @ + 1]

\* (a fold that counts a timeout as a failure as well)
add_result_TimeoutAlsoFailed(s, result) ==
    IF result.success
    THEN [s EXCEPT !.total = @ + 1, !.success = @ + 1]
    ELSE IF is_timeout(result)
    THEN [s EXCEPT !.total = @ + 1, !.timeout = @ + 1, !.failed = @ + 1]
    ELSE [s EXCEPT !.total = @ + 1, !.failed = @ + 1]

\* (a fold that weighs the old mean with the new count of successes)
add_result_WrongWeight(s, result) ==
    LET n == s.success + 1
        latency == result.latency_ms.val
    IN IF result.success
       THEN [s EXCEPT !.total = @ + 1, !.success = n,
                      !.avg_latency =
                          IF s.avg_latency.some
                          THEN Some(RatMulAddDiv(s.avg_latency.val, n, latency, n))
                          ELSE Some(latency)]
       ELSE IF is_timeout(result)
       THEN [s EXCEPT !.total = @ + 1, !.timeout = @ + 1]
       ELSE [s EXCEPT !.total = @ + 1, !.failed = @ + 1]

\* (a fold that keeps the first latency as the maximum)
add_result_MaxIsFirst(s, result) ==
    LET total == s.total + 1
    IN IF result.success
       THEN LET n == s.success + 1
            IN IF result.latency_ms.some
               THEN LET latency == result.latency_ms.val
                    IN [s EXCEPT
                          !.total = total,
                          !.success = n,
                          !.avg_latency =
                              IF s.avg_latency.some
                              THEN Some(RatMulAddDiv(s.avg_latency.val, n - 1, latency, n))
                              ELSE Some(latency),
                          !.min_latency =
                              IF s.min_latency.some
                              THEN Some(RatMin(s.min_latency.val, latency))
                              ELSE Some(latency),
                          !.max_latency =
                              IF s.max_latency.some
                              THEN s.max_latency
                              ELSE Some(latency)]
               ELSE [s EXCEPT !.total = total, !.success = n]
       ELSE IF is_timeout(result)
       THEN [s EXCEPT !.total = total, !.timeout = @ + 1]
       ELSE [s EXCEPT !.total = total, !.failed = @ + 1]

\* TestSummary::add_result
add_result(s, result) ==
    LET total == s.total + 1
    IN IF result.success
       THEN LET n == s.success + 1
            IN IF result.latency_ms.some
               THEN LET latency == result.latency_ms.val
                    IN [s EXCEPT
                          !.total = total,
                          !.success = n,
                          !.avg_latency =
                              IF s.avg_latency.some
                              THEN Some(RatMulAddDiv(s.avg_latency.val, n - 1, latency, n))
                              ELSE Some(latency),
                          !.min_latency =
                              IF s.min_latency.some
                              THEN Some(RatMin(s.min_latency.val, latency))
                              ELSE Some(latency),
                          !.max_latency =
                              IF s.max_latency.some
                              THEN Some(RatMax(s.max_latency.val, latency))
                              ELSE Some(latency)]
               ELSE [s EXCEPT !.total = total, !.success = n]
       ELSE IF is_timeout(result)
       THEN [s EXCEPT !.total = total, !.timeout = @ + 1]
       ELSE [s EXCEPT !.total = total, !.failed = @ + 1]

RECURSIVE summarize(_)
\* SpeedTester::summarize: a new summary with every result added in order
summarize(rs) ==
    IF rs = <<>> THEN NewSummary
    ELSE add_result(summarize(SubSeq(rs, 1, Len(rs) - 1)), rs[Len(rs)])

\* (a rate that is a fraction of one, not a percentage)
success_rate_Fraction(s) ==
    IF s.total = 0 THEN Rat(0, 1) ELSE Rat(s.success, s.total)

\* TestSummary::success_rate
success_rate(s) ==
    IF s.total = 0 THEN Rat(0, 1) ELSE Rat(s.success * 100, s.total)

\* the outcomes the prober's constructors build for one server: a success
\* with each latency, and a failure with each reason of test_latency
Outcomes ==
    LET server == ServerAt(1)
    IN { success(server, Rat(l, 1), Rat(0, 1)) : l \in Latencies }
       \cup { failure(server, e) :
                e \in {"timeout", "Invalid IP address", "IPv6 not supported yet"} }

\* summary.add_result(&result) with any outcome
Fold ==
    /\ Len(folded) < MaxFold
    /\ \E r \in Outcomes :
         /\ summary' = add_result(summary, r)
         /\ folded' = Append(folded, r)
    /\ UNCHANGED <<servers, testing, results, tested_count, total_count, schedPc,
                   idx, permits, tested, taskPc, taskResult, taskCount, chan,
                   timedOut, batch,
                   probe, cmp,
                   sort_mode, abandoned, runs, loader, probes>>

----------------------------------------------------------------------------
(* main.rs: the batch driver run_speed_test, and config/loader.rs *)

Ok(x) == [ok |-> TRUE, val |-> x]

Err(e) == [ok |-> FALSE, err |-> e]

\* the servers a list file or the command line can name
ServerPool == { ServerAt(i) : i \in 1..4 }

\* every list of at most MaxServers servers
AnyServerLists == UNION { [1..n -> ServerPool] : n \in 0..MaxServers }

\* A command-line argument is a sequence of pieces of text, of which "#" is
\* the separator and " " a blank. The argument "IP#Name" of a server:
ArgOf(server) == <<server.ip, "#", server.name>>

\* String of a sequence of pieces: the pieces joined
to_string(t) ==
    CASE t = <<>> -> ""
      [] Len(t) = 1 -> t[1]
      [] t = <<"Public", "#", "1">> -> "Public#1"

RECURSIVE TrimStart(_)
TrimStart(t) == IF t # <<>> /\ Head(t) = " " THEN TrimStart(Tail(t)) ELSE t

RECURSIVE TrimEnd(_)
TrimEnd(t) ==
    IF t # <<>> /\ t[Len(t)] = " " THEN TrimEnd(SubSeq(t, 1, Len(t) - 1)) ELSE t

\* str::trim
Trim(t) == TrimEnd(TrimStart(t))

\* s.splitn(2, '#'): the text before the first '#' and, if there is a '#',
\* the text after it
splitn2(t) ==
    LET hashes == { i \in DOMAIN t : t[i] = "#" }
    IN IF hashes = {} THEN <<t>>
       ELSE LET h == CHOOSE i \in hashes : \A j \in hashes : i <= j
            IN <<SubSeq(t, 1, h - 1), SubSeq(t, h + 1, Len(t))>>

\* the ip and the name from_args takes from an argument
SplitArg(s) ==
    LET parts == splitn2(s)
        ip == to_string(Trim(parts[1]))
        name == IF Len(parts) > 1 THEN to_string(Trim(parts[2])) ELSE ip
    IN [ip |-> ip, name |-> name]

RECURSIVE from_args_loop_SkipsInvalid(_, _)
\* (a loop that leaves out the arguments whose address is invalid)
from_args_loop_SkipsInvalid(dns_servers, pushed) ==
    IF dns_servers = <<>> THEN Ok(pushed)
    ELSE LET arg == SplitArg(Head(dns_servers))
         IN IF ParseIp(arg.ip) = None
            THEN from_args_loop_SkipsInvalid(Tail(dns_servers), pushed)
            ELSE from_args_loop_SkipsInvalid(Tail(dns_servers),
                                             Append(pushed, DnsServer(arg.name, arg.ip)))

RECURSIVE from_args_loop(_, _)
\* the loop of from_args over the arguments left, with the servers pushed
from_args_loop(dns_servers, pushed) ==
    IF dns_servers = <<>> THEN Ok(pushed)
    ELSE LET arg == SplitArg(Head(dns_servers))
         IN IF ParseIp(arg.ip) = None
            THEN Err("Parse")
            ELSE from_args_loop(Tail(dns_servers), Append(pushed, DnsServer(arg.name, arg.ip)))

\* ConfigLoader::from_args
from_args(dns_servers) == from_args_loop(dns_servers, <<>>)

\* load_dns_list: the arguments if there are any, else the file if one is
\* named, else the merged default lists; `file` and `defaults` are what
\* load_from_file and load_all with merge return
load_dns_list(file, dns_args, defaults) ==
    IF dns_args # <<>> THEN from_args(dns_args)
    ELSE IF file.some THEN file.val
    ELSE defaults

\* the arguments of the model: an address alone, "IP#Name", blanks around
\* both, an address that does not parse, a name with a '#', an empty name,
\* an empty address
ArgPool ==
    { <<"8.8.8.8">>,
      <<"8.8.8.8", "#", "Google">>,
      <<" ", "1.1.1.1", " ", "#", " ", "Cloudflare", " ">>,
      <<"invalid_ip", "#", "Test">>,
      <<"::1", "#", "Public", "#", "1">>,
      <<"1.1.1.1", "#">>,
      <<"#", "Google">> }

\* the lists of arguments of the model
ArgLists == UNION { [1..n -> ArgPool] : n \in 0..MaxServers }

\* the lists load_all can return: it pushes at most the IPv4 and the IPv6 list
MaxLists == 2

\* the servers of the lists merged: two of them have the same address, and
\* one an address that does not parse (load_from_file validates no address)
ListedServers ==
    { DnsServer("Google", "8.8.8.8"), DnsServer("Google DNS", "8.8.8.8"),
      DnsServer("Cloudflare", "1.1.1.1"), DnsServer("Test", "invalid_ip") }

\* a DnsList: its servers
DnsLists == UNION { [1..n -> ListedServers] : n \in 0..MaxServers }

\* the place of an address in the order of str::cmp, which compares bytes
IpRank(ip) ==
    CASE ip = "1.1.1.1" -> 1
      [] ip = "8.8.8.8" -> 2
      [] ip = "::1" -> 3
      [] ip = "invalid_ip" -> 4

RECURSIVE InsertByIp(_, _)
\* a server put into a sorted vector, after the servers that are not greater
InsertByIp(sorted, server) ==
    IF sorted = <<>> THEN <<server>>
    ELSE IF IpRank(server.ip) < IpRank(Head(sorted).ip) THEN <<server>> \o sorted
    ELSE <<Head(sorted)>> \o InsertByIp(Tail(sorted), server)

RECURSIVE SortByIp(_)
\* servers.sort_by(|a, b| a.ip.cmp(&b.ip)): the stable sort by address
SortByIp(list) ==
    IF list = <<>> THEN <<>>
    ELSE InsertByIp(SortByIp(SubSeq(list, 1, Len(list) - 1)), list[Len(list)])

RECURSIVE DedupByIp(_)
\* servers.dedup_by(|a, b| a.ip == b.ip): of consecutive servers with the same
\* address the first is kept
DedupByIp(list) ==
    IF Len(list) <= 1 THEN list
    ELSE LET front == DedupByIp(SubSeq(list, 1, Len(list) - 1))
             last == list[Len(list)]
         IN IF last.ip = front[Len(front)].ip THEN front ELSE Append(front, last)

RECURSIVE Extend(_)
\* the loop of merge: servers.extend(list.servers) for every list
Extend(lists) == IF lists = <<>> THEN <<>> ELSE Head(lists) \o Extend(Tail(lists))

\* (a merge that does not sort before it removes duplicates)
merge_NoSort(lists) == DedupByIp(Extend(lists))

\* ConfigLoader::merge
merge(lists) == DedupByIp(SortByIp(Extend(lists)))

\* ConfigLoader::from_args(dns_servers) is called
FromArgs ==
    /\ loader.pc = "args"
    /\ loader' = [loader EXCEPT !.pc = "argsDone", !.out = Some(from_args(loader.args))]
    /\ UNCHANGED <<servers, testing, results, tested_count, total_count, schedPc,
                   idx, permits, tested, taskPc, taskResult, taskCount, chan,
                   timedOut, batch, summary, folded, probe, cmp,
                   sort_mode, abandoned, runs, probes>>

\* ConfigLoader::merge(lists) is called
Merge ==
    /\ loader.pc = "lists"
    /\ loader' = [loader EXCEPT !.pc = "merged", !.out = Some(merge(loader.lists))]
    /\ UNCHANGED <<servers, testing, results, tested_count, total_count, schedPc,
                   idx, permits, tested, taskPc, taskResult, taskCount, chan,
                   timedOut, batch, summary, folded, probe, cmp,
                   sort_mode, abandoned, runs, probes>>

\* ConfigLoader::merge is called with the merged list alone
MergeAgain ==
    /\ loader.pc = "merged"
    /\ loader' = [loader EXCEPT !.pc = "mergedAgain",
                                !.again = Some(merge(<<loader.out.val>>))]
    /\ UNCHANGED <<servers, testing, results, tested_count, total_count, schedPc,
                   idx, permits, tested, taskPc, taskResult, taskCount, chan,
                   timedOut, batch, summary, folded, probe, cmp,
                   sort_mode, abandoned, runs, probes>>

\* the inputs of a batch: arguments, or a list file that loads or does not,
\* or neither, with default lists that load or do not; and the --sort flag
BatchInputs ==
    { [dns_args |-> [i \in DOMAIN l |-> ArgOf(l[i])], file |-> None,
       defaults |-> Err("Config"), sort_by_latency |-> b] :
        l \in AnyServerLists \ {<<>>}, b \in BOOLEAN }
    \cup { [dns_args |-> <<>>, file |-> Some(Ok(l)), defaults |-> Err("Config"),
            sort_by_latency |-> b] :
             l \in AnyServerLists, b \in BOOLEAN }
    \cup { [dns_args |-> <<>>, file |-> Some(Err("Io")), defaults |-> Err("Config"),
            sort_by_latency |-> b] : b \in BOOLEAN }
    \cup { [dns_args |-> <<>>, file |-> None, defaults |-> r, sort_by_latency |-> b] :
             r \in {Err("Config"), Ok([i \in 1..2 |-> ServerAt(i)])}, b \in BOOLEAN }

\* the servers an input names, whether or not they load
NamedServers(input) ==
    IF input.dns_args # <<>>
    THEN [i \in DOMAIN input.dns_args |-> SplitArg(input.dns_args[i])]
    ELSE IF input.file.some /\ input.file.val.ok THEN input.file.val.val
    ELSE IF ~input.file.some /\ input.defaults.ok THEN input.defaults.val
    ELSE <<>>

\* (a loop that keeps only the successful results)
PushResult_SkipFailures(rs, result) == IF result.success THEN Append(rs, result) ELSE rs

\* results.push(result)
PushResult(rs, result) == Append(rs, result)

\* run_speed_test begins: load_dns_list(file, dns_servers)?, SpeedTester::new()?
BatchBegin ==
    /\ batch.pc = "start"
    /\ LET loaded == load_dns_list(batch.input.file, batch.input.dns_args,
                                   batch.input.defaults)
       IN IF ~loaded.ok
          THEN batch' = [batch EXCEPT !.pc = "failed", !.error = Some(loaded.err)]
          ELSE \E tester_ok \in BOOLEAN :
                 IF tester_ok
                 THEN batch' = [batch EXCEPT !.pc = "loop", !.servers = loaded.val,
                                             !.idx = 1]
                 ELSE batch' = [batch EXCEPT !.pc = "failed", !.servers = loaded.val,
                                             !.error = Some("Network")]
    /\ UNCHANGED <<servers, testing, results, tested_count, total_count, schedPc,
                   idx, permits, tested, taskPc, taskResult, taskCount, chan,
                   timedOut, summary, folded,
                   probe, cmp,
                   sort_mode, abandoned, runs, loader, probes>>

\* one iteration of the loop: tester.test_latency(server).await; push
BatchProbe ==
    /\ batch.pc = "loop"
    /\ batch.idx <= Len(batch.servers)
    /\ \E rounds \in Rounds :
         batch' = [batch EXCEPT
                     !.results = PushResult(@, test_latency(batch.servers[batch.idx], rounds)),
                     !.idx = @ + 1]
    /\ UNCHANGED <<servers, testing, results, tested_count, total_count, schedPc,
                   idx, permits, tested, taskPc, taskResult, taskCount, chan,
                   timedOut, summary, folded,
                   probe, cmp,
                   sort_mode, abandoned, runs, loader, probes>>

\* the order of the sort: a.latency_ms.unwrap_or(f64::MAX) is less than
\* b.latency_ms.unwrap_or(f64::MAX)
LatencyLess(a, b) ==
    /\ a.latency_ms.some
    /\ ~b.latency_ms.some \/ RatLt(a.latency_ms.val, b.latency_ms.val)

RECURSIVE InsertByLatency(_, _)
\* r put into a sorted vector, after the elements that are not greater
InsertByLatency(sorted, r) ==
    IF sorted = <<>> THEN <<r>>
    ELSE IF LatencyLess(r, Head(sorted)) THEN <<r>> \o sorted
    ELSE <<Head(sorted)>> \o InsertByLatency(Tail(sorted), r)

RECURSIVE SortByLatency_DropsFailures(_)
\* (a sort that leaves out the results without a latency)
SortByLatency_DropsFailures(rs) ==
    IF rs = <<>> THEN <<>>
    ELSE LET front == SortByLatency_DropsFailures(SubSeq(rs, 1, Len(rs) - 1))
         IN IF rs[Len(rs)].latency_ms.some
            THEN InsertByLatency(front, rs[Len(rs)])
            ELSE front

RECURSIVE SortByLatency(_)
\* results.sort_by(..): the stable sort by latency, a result without a
\* latency after every result with one
SortByLatency(rs) ==
    IF rs = <<>> THEN <<>>
    ELSE InsertByLatency(SortByLatency(SubSeq(rs, 1, Len(rs) - 1)), rs[Len(rs)])

\* the loop is over: the results are sorted if --sort is given, printed and
\* summarized
BatchReport ==
    /\ batch.pc = "loop"
    /\ batch.idx > Len(batch.servers)
    /\ LET sorted == IF batch.input.sort_by_latency
                     THEN SortByLatency(batch.results)
                     ELSE batch.results
       IN /\ batch' = [batch EXCEPT !.pc = "done", !.results = sorted]
          /\ summary' = summarize(sorted)
          /\ folded' = sorted
    /\ UNCHANGED <<servers, testing, results, tested_count, total_count, schedPc,
                   idx, permits, tested, taskPc, taskResult, taskCount, chan,
                   timedOut,
                   probe, cmp,
                   sort_mode, abandoned, runs, loader, probes>>

\* one iteration of the loop of test_all: test_latency(server).await; push
\* (the progress callback and the pause after every BATCH_SIZE servers change
\* no state)
TestAllProbe ==
    /\ batch.pc = "all_loop"
    /\ batch.idx <= Len(batch.servers)
    /\ \E rounds \in Rounds :
         batch' = [batch EXCEPT
                     !.results = PushResult(@, test_latency(batch.servers[batch.idx], rounds)),
                     !.idx = @ + 1]
    /\ UNCHANGED <<servers, testing, results, tested_count, total_count, schedPc,
                   idx, permits, tested, taskPc, taskResult, taskCount, chan,
                   timedOut, summary, folded, probe, cmp,
                   sort_mode, abandoned, runs, loader, probes>>

\* the loop of test_all is over: it returns its results
TestAllReturn ==
    /\ batch.pc = "all_loop"
    /\ batch.idx > Len(batch.servers)
    /\ batch' = [batch EXCEPT !.pc = "all_done"]
    /\ UNCHANGED <<servers, testing, results, tested_count, total_count, schedPc,
                   idx, permits, tested, taskPc, taskResult, taskCount, chan,
                   timedOut, summary, folded, probe, cmp,
                   sort_mode, abandoned, runs, loader, probes>>

----------------------------------------------------------------------------
(* tui/app.rs: App::start_speed_test and the tasks it spawns *)

\* the tasks of the run: one handle per server, none before a run starts
Tasks == DOMAIN taskPc

ResultMsg(i, result) == [type |-> "Result", result |-> result, from |-> i]

\* (a progress message that reports the total as the count)
ProgressMsg_CountIsTotal(i, count, total) ==
    [type |-> "Progress", tested |-> total, total |-> total, from |-> i]

ProgressMsg(i, count, total) ==
    [type |-> "Progress", tested |-> count, total |-> total, from |-> i]

CompletedMsg == [type |-> "Completed"]

\* (a gate that admits without waiting for a free permit)
CanAcquire_NoWait(p) == TRUE

\* Semaphore: a permit can be acquired when one is free
CanAcquire(p) == p > 0

Acquire(p) == p - 1

\* (a task that ends without giving its permit back)
Release_Leaks(p) == p

\* drop(permit)
Release(p) == p + 1

\* the tasks that hold a permit: admitted and not yet completed
InFlight == { i \in Tasks : taskPc[i] \notin {"none", "finished"} }

\* where the scheduler is once its loop has reached index i: at the next
\* acquire_owned().await, or past the loop in timeout(.., join_all(handles))
AfterLoop(i, n) == IF i > n THEN "join" ELSE "loop"

\* (a start key that starts a run whether or not one is running)
CanStart_Always(t) == TRUE

\* handle_key(' '): `if !self.testing { self.start_speed_test() }`
CanStart(t) == ~t

\* the tasks of the run that has ended and their counter: the scheduler task
\* is over, and the tasks it spawned that are not finished keep running
Detached ==
    [servers |-> servers, taskPc |-> taskPc, taskResult |-> taskResult,
     taskCount |-> taskCount, tested |-> tested]

\* handle_key(' ') when no test is running: start_speed_test up to the spawn
\* of the scheduler task, which creates the semaphore and the counter
StartSpeedTest ==
    /\ CanStart(testing)
    /\ runs' = runs + 1
    /\ abandoned' = IF \E i \in Tasks : taskPc[i] # "finished"
                    THEN Append(abandoned, Detached)
                    ELSE abandoned
    /\ testing' = TRUE
    /\ results' = <<>>
    /\ tested_count' = 0
    /\ total_count' = Len(servers)
    /\ schedPc' = AfterLoop(1, Len(servers))
    /\ idx' = 1
    /\ permits' = MAX_CONCURRENT
    /\ tested' = 0
    /\ taskPc' = [i \in 1..Len(servers) |-> "none"]
    /\ taskResult' = [i \in 1..Len(servers) |-> None]
    /\ taskCount' = [i \in 1..Len(servers) |-> 0]
    /\ timedOut' = FALSE
    /\ UNCHANGED <<servers, chan, batch, summary, folded,
                   probe, cmp, sort_mode, loader, probes>>

\* one iteration of `for server in servers`: acquire_owned().await returns a
\* permit and the task of the server is spawned with it
Admit ==
    /\ schedPc = "loop"
    /\ CanAcquire(permits)
    /\ permits' = Acquire(permits)
    /\ taskPc' = [taskPc EXCEPT ![idx] = "running"]
    /\ idx' = idx + 1
    /\ schedPc' = AfterLoop(idx + 1, Len(servers))
    /\ UNCHANGED <<servers, testing, results, tested_count, total_count, tested,
                   taskResult, taskCount, chan, timedOut, batch, summary, folded,
                   probe, cmp,
                   sort_mode, abandoned, runs, loader, probes>>

\* SpeedTester::new() fails in a spawned task: drop(permit); return
TesterFails(i) ==
    /\ i \in Tasks
    /\ taskPc[i] = "running"
    /\ permits' = Release(permits)
    /\ taskPc' = [taskPc EXCEPT ![i] = "finished"]
    /\ UNCHANGED <<servers, testing, results, tested_count, total_count, schedPc,
                   idx, tested, taskResult, taskCount, chan, timedOut, batch,
                   summary, folded,
                   probe, cmp,
                   sort_mode, abandoned, runs, loader, probes>>

\* SpeedTester::new() succeeded, test_latency returns and the task takes its
\* count: tested.fetch_add(1) + 1
ProbeComplete(i) ==
    /\ i \in Tasks
    /\ taskPc[i] = "running"
    /\ \E rounds \in Rounds :
         taskResult' = [taskResult EXCEPT ![i] = Some(test_latency(servers[i], rounds))]
    /\ taskCount' = [taskCount EXCEPT ![i] = tested + 1]
    /\ tested' = tested + 1
    /\ taskPc' = [taskPc EXCEPT ![i] = "counted"]
    /\ UNCHANGED <<servers, testing, results, tested_count, total_count, schedPc,
                   idx, permits, chan, timedOut, batch, summary, folded,
                   probe, cmp,
                   sort_mode, abandoned, runs, loader, probes>>

\* (a task that sends its progress before its result)
TaskSends_ProgressFirst(i, result, count, total) ==
    <<ProgressMsg(i, count, total), ResultMsg(i, result)>>

\* the two messages a task sends once its probe has returned, in order
TaskSends(i, result, count, total) ==
    <<ResultMsg(i, result), ProgressMsg(i, count, total)>>

\* tx.send(AppMessage::Result(result))
SendResult(i) ==
    /\ i \in Tasks
    /\ taskPc[i] = "counted"
    /\ chan' = Append(chan, TaskSends(i, taskResult[i].val, taskCount[i], Len(servers))[1])
    /\ taskPc' = [taskPc EXCEPT ![i] = "sentResult"]
    /\ UNCHANGED <<servers, testing, results, tested_count, total_count, schedPc,
                   idx, permits, tested, taskResult, taskCount, timedOut, batch,
                   summary, folded,
                   probe, cmp,
                   sort_mode, abandoned, runs, loader, probes>>

\* tx.send(AppMessage::Progress { tested: count, total })
SendProgress(i) ==
    /\ i \in Tasks
    /\ taskPc[i] = "sentResult"
    /\ chan' = Append(chan, TaskSends(i, taskResult[i].val, taskCount[i], Len(servers))[2])
    /\ taskPc' = [taskPc EXCEPT ![i] = "sentProgress"]
    /\ UNCHANGED <<servers, testing, results, tested_count, total_count, schedPc,
                   idx, permits, tested, taskResult, taskCount, timedOut, batch,
                   summary, folded,
                   probe, cmp,
                   sort_mode, abandoned, runs, loader, probes>>

\* drop(permit): the task is over
DropPermit(i) ==
    /\ i \in Tasks
    /\ taskPc[i] = "sentProgress"
    /\ permits' = Release(permits)
    /\ taskPc' = [taskPc EXCEPT ![i] = "finished"]
    /\ UNCHANGED <<servers, testing, results, tested_count, total_count, schedPc,
                   idx, tested, taskResult, taskCount, chan, timedOut, batch,
                   summary, folded,
                   probe, cmp,
                   sort_mode, abandoned, runs, loader, probes>>

\* (a scheduler that returns without signalling when the wait timed out)
SignalCompletion_NotOnTimeout(ch, timeout_is_err) ==
    IF timeout_is_err THEN ch ELSE Append(ch, CompletedMsg)

\* after the wait: a warning is logged if it timed out, and in both cases
\* tx.send(AppMessage::Completed)
SignalCompletion(ch, timeout_is_err) == Append(ch, CompletedMsg)

\* join_all(handles) is ready before the timeout: Completed is sent
JoinAll ==
    /\ schedPc = "join"
    /\ \A i \in Tasks : taskPc[i] = "finished"
    /\ chan' = SignalCompletion(chan, FALSE)
    /\ schedPc' = "done"
    /\ UNCHANGED <<servers, testing, results, tested_count, total_count, idx,
                   permits, tested, taskPc, taskResult, taskCount, timedOut, batch,
                   summary, folded,
                   probe, cmp,
                   sort_mode, abandoned, runs, loader, probes>>

\* TOTAL_TIMEOUT_SECS pass while some handle is not ready: the scheduler stops
\* waiting (the spawned tasks keep running) and Completed is sent
Timeout ==
    /\ schedPc = "join"
    /\ \E i \in Tasks : taskPc[i] # "finished"
    /\ timedOut' = TRUE
    /\ chan' = SignalCompletion(chan, TRUE)
    /\ schedPc' = "done"
    /\ UNCHANGED <<servers, testing, results, tested_count, total_count, idx,
                   permits, tested, taskPc, taskResult, taskCount, batch, summary,
                   folded,
                   probe, cmp,
                   sort_mode, abandoned, runs, loader, probes>>

----------------------------------------------------------------------------
(* tui/app.rs: the tasks of a run that ended by its deadline *)

\* SpeedTester::new() fails in a task of an earlier run
StaleTesterFails(g, i) ==
    /\ g \in DOMAIN abandoned
    /\ i \in DOMAIN abandoned[g].taskPc
    /\ abandoned[g].taskPc[i] = "running"
    /\ abandoned' = [abandoned EXCEPT ![g].taskPc[i] = "finished"]
    /\ UNCHANGED <<servers, testing, results, tested_count, total_count, schedPc,
                   idx, permits, tested, taskPc, taskResult, taskCount, chan,
                   timedOut, batch, summary, folded, probe, cmp, sort_mode,
                   runs, loader, probes>>

\* test_latency returns in a task of an earlier run, which takes its count
\* from the counter of its own run
StaleProbeComplete(g, i) ==
    /\ g \in DOMAIN abandoned
    /\ i \in DOMAIN abandoned[g].taskPc
    /\ abandoned[g].taskPc[i] = "running"
    /\ \E rounds \in Rounds :
         abandoned' = [abandoned EXCEPT
            ![g].taskResult[i] = Some(test_latency(abandoned[g].servers[i], rounds)),
            ![g].taskCount[i] = abandoned[g].tested + 1,
            ![g].tested = @ + 1,
            ![g].taskPc[i] = "counted"]
    /\ UNCHANGED <<servers, testing, results, tested_count, total_count, schedPc,
                   idx, permits, tested, taskPc, taskResult, taskCount, chan,
                   timedOut, batch, summary, folded, probe, cmp, sort_mode,
                   runs, loader, probes>>

\* tx.send(AppMessage::Result(result)) in a task of an earlier run: tx is a
\* clone of the one message_tx of the App
StaleSendResult(g, i) ==
    /\ g \in DOMAIN abandoned
    /\ i \in DOMAIN abandoned[g].taskPc
    /\ abandoned[g].taskPc[i] = "counted"
    /\ chan' = Append(chan, TaskSends(i, abandoned[g].taskResult[i].val,
                                      abandoned[g].taskCount[i],
                                      Len(abandoned[g].servers))[1])
    /\ abandoned' = [abandoned EXCEPT ![g].taskPc[i] = "sentResult"]
    /\ UNCHANGED <<servers, testing, results, tested_count, total_count, schedPc,
                   idx, permits, tested, taskPc, taskResult, taskCount,
                   timedOut, batch, summary, folded, probe, cmp, sort_mode,
                   runs, loader, probes>>

\* tx.send(AppMessage::Progress { .. }) in a task of an earlier run
StaleSendProgress(g, i) ==
    /\ g \in DOMAIN abandoned
    /\ i \in DOMAIN abandoned[g].taskPc
    /\ abandoned[g].taskPc[i] = "sentResult"
    /\ chan' = Append(chan, TaskSends(i, abandoned[g].taskResult[i].val,
                                      abandoned[g].taskCount[i],
                                      Len(abandoned[g].servers))[2])
    /\ abandoned' = [abandoned EXCEPT ![g].taskPc[i] = "sentProgress"]
    /\ UNCHANGED <<servers, testing, results, tested_count, total_count, schedPc,
                   idx, permits, tested, taskPc, taskResult, taskCount,
                   timedOut, batch, summary, folded, probe, cmp, sort_mode,
                   runs, loader, probes>>

\* drop(permit) in a task of an earlier run: the permit goes back to the
\* semaphore of that run, which no scheduler waits on any more
StaleDropPermit(g, i) ==
    /\ g \in DOMAIN abandoned
    /\ i \in DOMAIN abandoned[g].taskPc
    /\ abandoned[g].taskPc[i] = "sentProgress"
    /\ abandoned' = [abandoned EXCEPT ![g].taskPc[i] = "finished"]
    /\ UNCHANGED <<servers, testing, results, tested_count, total_count, schedPc,
                   idx, permits, tested, taskPc, taskResult, taskCount, chan,
                   timedOut, batch, summary, folded, probe, cmp, sort_mode,
                   runs, loader, probes>>

----------------------------------------------------------------------------
(* tui/app.rs: the consumer, App::run_loop and App::handle_message *)

SortModes == {"Latency", "Name", "Status"}

\* String::cmp of the names of the endpoints of the model
NameRank(name) ==
    CASE name = "Cloudflare" -> 1
      [] name = "Google" -> 2
      [] name = "Loopback6" -> 3
      [] OTHER -> 4

\* the closure of sort_by in each sort mode says Ordering::Less
SortLess(mode, a, b) ==
    CASE mode = "Latency" -> LatencyLess(a, b)
      [] mode = "Name" -> NameRank(a.server.name) < NameRank(b.server.name)
      [] OTHER -> a.success /\ ~b.success

RECURSIVE InsertSorted(_, _, _)
\* r put into a sorted vector, after the elements that are not greater
InsertSorted(mode, sorted, r) ==
    IF sorted = <<>> THEN <<r>>
    ELSE IF SortLess(mode, r, Head(sorted)) THEN <<r>> \o sorted
    ELSE <<Head(sorted)>> \o InsertSorted(mode, Tail(sorted), r)

RECURSIVE sort_results(_, _)
\* App::sort_results: the stable sort_by of the result list in the sort mode
sort_results(rs, mode) ==
    IF rs = <<>> THEN <<>>
    ELSE InsertSorted(mode, sort_results(SubSeq(rs, 1, Len(rs) - 1), mode), rs[Len(rs)])

\* (a handler that pushes a result without sorting the list)
Handled_NoSortOnResult(app, msg) ==
    CASE msg.type = "Result" ->
           [app EXCEPT !.results = Append(@, msg.result),
                       !.tested_count = @ + 1]
      [] msg.type = "Progress" ->
           [app EXCEPT !.tested_count = msg.tested]
      [] OTHER ->
           [app EXCEPT !.testing = FALSE,
                       !.results = sort_results(@, app.sort_mode)]

\* App::handle_message, the state of the App after msg
Handled(app, msg) ==
    CASE msg.type = "Result" ->
           [app EXCEPT !.results = sort_results(Append(@, msg.result), app.sort_mode),
                       !.tested_count = @ + 1]
      [] msg.type = "Progress" ->
           [app EXCEPT !.tested_count = msg.tested]
      [] OTHER ->
           [app EXCEPT !.testing = FALSE,
                       !.results = sort_results(@, app.sort_mode)]

\* one turn of `while let Ok(msg) = rx.try_recv()` in run_loop
HandleMessage ==
    /\ chan # <<>>
    /\ LET app == Handled([results |-> results, tested_count |-> tested_count,
                           testing |-> testing, sort_mode |-> sort_mode],
                          Head(chan))
       IN /\ results' = app.results
          /\ tested_count' = app.tested_count
          /\ testing' = app.testing
    /\ chan' = Tail(chan)
    /\ UNCHANGED <<servers, total_count, schedPc, idx, permits, tested, taskPc,
                   taskResult, taskCount, timedOut, batch, summary, folded,
                   probe, cmp, sort_mode, abandoned, runs, loader, probes>>

\* the results a message can carry to the consumer: successes of two
\* endpoints with each latency, and the failures
AnyResults ==
    { success(ServerAt(i), Rat(l, 1), Rat(0, 1)) : i \in 1..2, l \in Latencies }
    \cup { failure(ServerAt(i), "timeout") : i \in 1..2 }
    \cup { failure(ServerAt(3), "Invalid IP address") }

\* the messages the receiver of run_loop can hold
AnyMessages ==
    { ResultMsg(1, r) : r \in AnyResults }
    \cup { ProgressMsg(1, 1, MaxServers), CompletedMsg }

\* handle_message called with any message, while the list has room
Receive ==
    /\ Len(results) < MaxServers
    /\ \E msg \in AnyMessages :
         LET app == Handled([results |-> results, tested_count |-> tested_count,
                             testing |-> testing, sort_mode |-> sort_mode], msg)
         IN /\ results' = app.results
            /\ tested_count' = app.tested_count
            /\ testing' = app.testing
    /\ UNCHANGED <<servers, total_count, schedPc, idx, permits, tested, taskPc,
                   taskResult, taskCount, chan, timedOut, batch, summary, folded,
                   probe, cmp, sort_mode, abandoned, runs, loader, probes>>

\* handle_key('s'): the sort mode that follows
NextSortMode(mode) ==
    CASE mode = "Latency" -> "Name"
      [] mode = "Name" -> "Status"
      [] OTHER -> "Latency"

\* handle_key('s') in the speed test view: the mode changes and the list is
\* sorted again
SortKey ==
    /\ sort_mode' = NextSortMode(sort_mode)
    /\ results' = sort_results(results, NextSortMode(sort_mode))
    /\ UNCHANGED <<servers, testing, tested_count, total_count, schedPc, idx,
                   permits, tested, taskPc, taskResult, taskCount, chan,
                   timedOut, batch, summary, folded, probe, cmp, abandoned,
                   runs, loader, probes>>

RECURSIVE SumLatencies(_)
\* latencies.iter().sum() of results.iter().filter_map(|r| r.latency_ms)
SumLatencies(rs) ==
    IF rs = <<>> THEN Rat(0, 1)
    ELSE LET rest == SumLatencies(Tail(rs))
         IN IF Head(rs).latency_ms.some
            THEN Rat(Head(rs).latency_ms.val.num * rest.den
                       + rest.num * Head(rs).latency_ms.val.den,
                     Head(rs).latency_ms.val.den * rest.den)
            ELSE rest

RECURSIVE ReduceLatencies(_, _)
\* latencies.iter().copied().reduce(f64::min) or (f64::max)
ReduceLatencies(rs, which) ==
    IF rs = <<>> THEN None
    ELSE LET rest == ReduceLatencies(Tail(rs), which)
             head == Head(rs).latency_ms
         IN IF ~head.some THEN rest
            ELSE IF ~rest.some THEN head
            ELSE IF which = "min" THEN Some(RatMin(head.val, rest.val))
            ELSE Some(RatMax(head.val, rest.val))

\* the subtraction of usize that stops at zero
saturating_sub(a, b) == IF a > b THEN a - b ELSE 0

\* (statistics that count every result without success as failed)
get_stats_TimeoutsAsFailed(rs) ==
    LET n == Cardinality({ i \in DOMAIN rs : rs[i].latency_ms.some })
    IN [total |-> Len(rs),
        success |-> Cardinality({ i \in DOMAIN rs : rs[i].success }),
        failed |-> saturating_sub(Len(rs),
                                  Cardinality({ i \in DOMAIN rs : rs[i].success })),
        timeout |-> Cardinality({ i \in DOMAIN rs : is_timeout(rs[i]) }),
        avg_latency |-> IF n = 0 THEN None
                        ELSE Some(Rat(SumLatencies(rs).num, SumLatencies(rs).den * n)),
        min_latency |-> ReduceLatencies(rs, "min"),
        max_latency |-> ReduceLatencies(rs, "max")]

\* App::get_stats: the statistics recomputed from the result list
get_stats(rs) ==
    LET total == Len(rs)
        successes == Cardinality({ i \in DOMAIN rs : rs[i].success })
        timeout == Cardinality({ i \in DOMAIN rs : is_timeout(rs[i]) })
        n == Cardinality({ i \in DOMAIN rs : rs[i].latency_ms.some })
    IN [total |-> total,
        success |-> successes,
        failed |-> saturating_sub(saturating_sub(total, successes), timeout),
        timeout |-> timeout,
        avg_latency |-> IF n = 0 THEN None
                        ELSE Some(Rat(SumLatencies(rs).num, SumLatencies(rs).den * n)),
        min_latency |-> ReduceLatencies(rs, "min"),
        max_latency |-> ReduceLatencies(rs, "max")]

----------------------------------------------------------------------------
(* dns/speedtest.rs: one call of test_latency, followed round by round *)

\* the most echo rounds of one probe: with_settings takes any ping_count
MaxPingCount == 3

\* elapsed milliseconds a round of the probe followed round by round measures
RoundElapsed == {10, 20}

\* what a round of that probe can end in
AnyRoundOutcome ==
    { [kind |-> "reply", elapsed |-> e] : e \in RoundElapsed }
    \cup { [kind |-> "error", elapsed |-> 0], [kind |-> "timeout", elapsed |-> 0] }

\* (a check of the address that lets an IPv6 address through to the rounds)
Refused_OnlyUnparseable(server) ==
    IF ip_addr(server) = None
    THEN Some(failure(server, "Invalid IP address"))
    ELSE None

\* the head of test_latency: the failure returned for an address that does
\* not parse or is an IPv6 address, None for an IPv4 address
Refused(server) ==
    IF ip_addr(server) = None
    THEN Some(failure(server, "Invalid IP address"))
    ELSE IF ip_addr(server) = Some("v6")
    THEN Some(failure(server, "IPv6 not supported yet"))
    ELSE None

\* (a result whose packet loss is the share of the rounds that succeeded)
ProbeResult_LossIsSuccessShare(server, latencies, success_count, ping_count) ==
    IF success_count > 0
    THEN success(server, Rat(SumSeq(latencies), Len(latencies)),
                 Rat(success_count, ping_count))
    ELSE failure(server, "timeout")

\* the tail of test_latency: the result after the rounds
ProbeResult(server, latencies, success_count, ping_count) ==
    LET packet_loss == Rat(ping_count - success_count, ping_count)
    IN IF success_count > 0
       THEN success(server, Rat(SumSeq(latencies), Len(latencies)), packet_loss)
       ELSE failure(server, "timeout")

\* test_latency not called, or called on a tester with a ping_count
ProbeAt(pc, server, ping_count) ==
    [pc |-> pc, server |-> server, ping_count |-> ping_count, seq |-> 0,
     latencies |-> <<>>, success_count |-> 0,
     ident |-> 0,     \* the PingIdentifier of the pinger of the round
     sent |-> 0,      \* echo requests sent so far
     log |-> <<>>,    \* what each round ended in, in order
     result |-> None]

\* (a loop that ends at the first reply)
AfterRound_StopsAtFirstReply(p, seq) ==
    IF seq < p.ping_count /\ p.success_count = 0
    THEN [p EXCEPT !.pc = "send", !.seq = seq]
    ELSE [p EXCEPT !.pc = "done", !.seq = seq,
                   !.result = Some(ProbeResult(p.server, p.latencies, p.success_count,
                                               p.ping_count))]

\* where test_latency is once round seq is next: in the loop, or returned
AfterRound(p, seq) ==
    IF seq < p.ping_count
    THEN [p EXCEPT !.pc = "send", !.seq = seq]
    ELSE [p EXCEPT !.pc = "done", !.seq = seq,
                   !.result = Some(ProbeResult(p.server, p.latencies, p.success_count,
                                               p.ping_count))]

\* the readings of the clock of the model, in nanoseconds of the second
\* (subsec_nanos): two of them are 65536 ns apart
Nanos == {1000, 66536, 70000}

\* rand_id, for a reading of the clock
rand_id(nanos) == (nanos % 65536) % 65536

\* test_latency begins: the address is parsed and checked
Begun(p) ==
    IF Refused(p.server).some
    THEN [p EXCEPT !.pc = "done", !.result = Refused(p.server)]
    ELSE AfterRound(p, 0)

\* a round begins: the pinger is made with PingIdentifier(rand_id()) and
\* pinger.ping(PingSequence(seq), &payload) sends its request
Sent(p, nanos) == [p EXCEPT !.pc = "wait", !.sent = @ + 1, !.ident = rand_id(nanos)]

\* the round ends: timeout(self.timeout, ping) returns a reply, an error or
\* the timeout, and the loop goes on or the result is returned
Ended(p, outcome) ==
    LET q == IF outcome.kind = "reply"
             THEN [p EXCEPT !.latencies = Append(@, outcome.elapsed),
                            !.success_count = @ + 1,
                            !.log = Append(@, outcome)]
             ELSE [p EXCEPT !.log = Append(@, outcome)]
    IN AfterRound(q, p.seq + 1)

\* the steps of one call of test_latency
ProbeBegin ==
    /\ probe.pc = "start"
    /\ probe' = Begun(probe)
    /\ UNCHANGED <<servers, testing, results, tested_count, total_count, schedPc,
                   idx, permits, tested, taskPc, taskResult, taskCount, chan,
                   timedOut, batch, summary, folded, cmp,
                   sort_mode, abandoned, runs, loader, probes>>

ProbeSend ==
    /\ probe.pc = "send"
    /\ \E nanos \in Nanos : probe' = Sent(probe, nanos)
    /\ UNCHANGED <<servers, testing, results, tested_count, total_count, schedPc,
                   idx, permits, tested, taskPc, taskResult, taskCount, chan,
                   timedOut, batch, summary, folded, cmp,
                   sort_mode, abandoned, runs, loader, probes>>

ProbeRound ==
    /\ probe.pc = "wait"
    /\ \E outcome \in AnyRoundOutcome : probe' = Ended(probe, outcome)
    /\ UNCHANGED <<servers, testing, results, tested_count, total_count, schedPc,
                   idx, permits, tested, taskPc, taskResult, taskCount, chan,
                   timedOut, batch, summary, folded, cmp,
                   sort_mode, abandoned, runs, loader, probes>>

\* the steps of the calls of test_latency that run at the same time, each in
\* its own task with its own tester
CoBegin(i) ==
    /\ i \in DOMAIN probes
    /\ probes[i].pc = "start"
    /\ probes' = [probes EXCEPT ![i] = Begun(@)]
    /\ UNCHANGED <<servers, testing, results, tested_count, total_count, schedPc,
                   idx, permits, tested, taskPc, taskResult, taskCount, chan,
                   timedOut, batch, summary, folded, cmp,
                   sort_mode, abandoned, runs, loader, probe>>

CoSend(i) ==
    /\ i \in DOMAIN probes
    /\ probes[i].pc = "send"
    /\ \E nanos \in Nanos : probes' = [probes EXCEPT ![i] = Sent(@, nanos)]
    /\ UNCHANGED <<servers, testing, results, tested_count, total_count, schedPc,
                   idx, permits, tested, taskPc, taskResult, taskCount, chan,
                   timedOut, batch, summary, folded, cmp,
                   sort_mode, abandoned, runs, loader, probe>>

CoRound(i) ==
    /\ i \in DOMAIN probes
    /\ probes[i].pc = "wait"
    /\ \E outcome \in AnyRoundOutcome : probes' = [probes EXCEPT ![i] = Ended(@, outcome)]
    /\ UNCHANGED <<servers, testing, results, tested_count, total_count, schedPc,
                   idx, permits, tested, taskPc, taskResult, taskCount, chan,
                   timedOut, batch, summary, folded, cmp,
                   sort_mode, abandoned, runs, loader, probe>>

----------------------------------------------------------------------------
(* dns/pollution.rs: the comparator PollutionChecker *)

\* the most records one lookup answers with
MaxRecords == 2

\* PUBLIC_DNS_IPS: the addresses of well-known public resolvers
PUBLIC_DNS_IPS ==
    {"8.8.8.8", "8.8.4.4", "1.1.1.1", "1.0.0.1", "9.9.9.9",
     "208.67.222.222", "208.67.220.220",
     "2001:4860:4860::8888", "2001:4860:4860::8844",
     "2606:4700:4700::1111", "2606:4700:4700::1001",
     "2620:fe::fe", "2620:fe::9"}

\* the records of the answers of the model: an address of the allow-list, two
\* addresses outside it, an IPv6 address, and a record that is no address.
\* An address is written as IpAddr::to_string prints it.
RecordPool ==
    { [rtype |-> "A", ip |-> "1.1.1.1"],
      [rtype |-> "A", ip |-> "93.184.216.34"],
      [rtype |-> "A", ip |-> "203.0.113.9"],
      [rtype |-> "AAAA", ip |-> "2001:db8::1"],
      [rtype |-> "CNAME", ip |-> ""] }

\* what resolver.lookup(..).await returns: a resolution error, or the records
\* of the answer in order
Responses ==
    { Err("Resolver") }
    \cup { Ok(rs) : rs \in UNION { [1..n -> RecordPool] : n \in 0..MaxRecords } }

\* the domains checked: without a trailing dot, with the dot of a fully
\* qualified name, and with two trailing dots
Domains == { [label |-> "example.com", dots |-> n] : n \in 0..2 }

\* str::ends_with('.')
ends_with_dot(domain) == domain.dots > 0

\* format!("{domain}.")
with_dot(domain) == [domain EXCEPT !.dots = @ + 1]

\* str::trim_end_matches('.')
trim_end_dots(domain) == [domain EXCEPT !.dots = 0]

\* (a check that appends a dot to every input)
qualified_AlwaysAppends(domain) == with_dot(domain)

\* the head of check: the domain, with a dot appended if it ends with none
qualified(domain) == IF ends_with_dot(domain) THEN domain ELSE with_dot(domain)

\* PollutionResult
PollutionResult(domain, system_ips, public_ips, is_polluted, details) ==
    [domain |-> domain, system_ips |-> system_ips, public_ips |-> public_ips,
     is_polluted |-> is_polluted, details |-> details]

\* the elements of a vector, as .iter().collect::<HashSet<_>>() gathers them
SetOf(s) == { s[i] : i \in DOMAIN s }

\* (a loop that looks at the first system address only)
MatchFound_FirstOnly(system_ips, public_ip_set) ==
    IF system_ips = <<>> THEN FALSE
    ELSE Head(system_ips) \in public_ip_set \cup PUBLIC_DNS_IPS

RECURSIVE MatchFound(_, _)
\* the for loop of detect_pollution: TRUE when it returns at an address that is
\* in the public set or in PUBLIC_DNS_IPS, FALSE when it runs to its end
MatchFound(system_ips, public_ip_set) ==
    IF system_ips = <<>> THEN FALSE
    ELSE LET sys_ip == Head(system_ips)
         IN IF sys_ip \in public_ip_set THEN TRUE
            ELSE IF sys_ip \in PUBLIC_DNS_IPS THEN TRUE
            ELSE MatchFound(Tail(system_ips), public_ip_set)

\* (a comparison that wants every system address to match)
detect_pollution_EveryMustMatch(system_ips, public_ips) ==
    IF system_ips = <<>> \/ public_ips = <<>> THEN FALSE
    ELSE \E i \in DOMAIN system_ips :
           system_ips[i] \notin SetOf(public_ips) \cup PUBLIC_DNS_IPS

\* (a comparison without the check for empty results)
detect_pollution_NoEmptyCheck(system_ips, public_ips) ==
    ~MatchFound(system_ips, SetOf(public_ips))

\* (a comparison that looks at the allow-list only)
detect_pollution_IgnoresReference(system_ips, public_ips) ==
    IF system_ips = <<>> \/ public_ips = <<>> THEN FALSE
    ELSE IF MatchFound(system_ips, {}) THEN FALSE
    ELSE TRUE

\* PollutionChecker::detect_pollution
detect_pollution(system_ips, public_ips) ==
    IF system_ips = <<>> \/ public_ips = <<>> THEN FALSE
    ELSE IF MatchFound(system_ips, SetOf(public_ips)) THEN FALSE
    ELSE system_ips # <<>> /\ public_ips # <<>>

RECURSIVE CollectIps(_, _)
\* filter_map over the records of an answer: the addresses of the records of
\* the types kept, in order
CollectIps(records, rtypes) ==
    IF records = <<>> THEN <<>>
    ELSE LET record == Head(records)
             rest == CollectIps(Tail(records), rtypes)
         IN IF record.rtype \in rtypes THEN <<record.ip>> \o rest ELSE rest

\* check once resolve_with has returned Ok(ips) for the resolver asked: the
\* public resolver is asked next, or the result is built
Resolved(c, ips) ==
    IF c.side = "system"
    THEN [c EXCEPT !.system_ips = ips, !.side = "public", !.pc = "A"]
    ELSE LET is_polluted == detect_pollution(c.system_ips, ips)
             details == IF is_polluted
                        THEN [text |-> "System DNS returned, Public DNS returned",
                              ips |-> <<c.system_ips, ips>>]
                        ELSE [text |-> "Both returned similar results",
                              ips |-> <<ips>>]
         IN [c EXCEPT !.public_ips = ips, !.pc = "done",
                      !.result = Some(PollutionResult(trim_end_dots(c.fqdn), c.system_ips,
                                                      ips, is_polluted, details))]

\* (a resolution that asks for AAAA records whatever the A query yielded)
Looked_AlwaysFallsBack(c, response) ==
    IF ~response.ok
    THEN [c EXCEPT !.pc = "failed", !.error = Some(response.err)]
    ELSE IF c.pc = "A"
    THEN [c EXCEPT !.pc = "AAAA"]
    ELSE Resolved(c, CollectIps(response.val, {"AAAA"}))

\* (a lookup whose error is taken for an answer without records)
Looked_ErrorAsEmpty(c, response) ==
    LET records == IF response.ok THEN response.val ELSE <<>>
        ips == IF c.pc = "A" THEN CollectIps(records, {"A", "AAAA"})
               ELSE CollectIps(records, {"AAAA"})
    IN IF c.pc = "A" /\ ips = <<>> THEN [c EXCEPT !.pc = "AAAA"] ELSE Resolved(c, ips)

\* resolve_with after a lookup has returned: `?` hands an error on to the
\* caller of check; the answer to the A query is kept unless it holds no
\* address, and then the AAAA query is made and its AAAA records are kept
Looked(c, response) ==
    IF ~response.ok
    THEN [c EXCEPT !.pc = "failed", !.error = Some(response.err)]
    ELSE IF c.pc = "A"
    THEN LET ips == CollectIps(response.val, {"A", "AAAA"})
         IN IF ips = <<>> THEN [c EXCEPT !.pc = "AAAA"] ELSE Resolved(c, ips)
    ELSE Resolved(c, CollectIps(response.val, {"AAAA"}))

\* check begins: the domain is made fully qualified
CheckBegin ==
    /\ cmp.pc = "start"
    /\ cmp' = [cmp EXCEPT !.fqdn = qualified(cmp.domain),
                          !.side = "system", !.pc = "A"]
    /\ UNCHANGED <<servers, testing, results, tested_count, total_count, schedPc,
                   idx, permits, tested, taskPc, taskResult, taskCount, chan,
                   timedOut, batch, summary, folded, probe,
                   sort_mode, abandoned, runs, loader, probes>>

\* resolver.lookup(domain, rtype).await returns, for the resolver and the
\* record type that resolve_with is at
LookupFrom(rtype, answers) ==
    /\ cmp.pc = rtype
    /\ \E response \in answers :
         cmp' = [Looked(cmp, response) EXCEPT
                   !.queries = Append(@, [resolver |-> cmp.side, name |-> cmp.fqdn,
                                          rtype |-> rtype, response |-> response]),
                   !.erred = @ \/ ~response.ok]
    /\ UNCHANGED <<servers, testing, results, tested_count, total_count, schedPc,
                   idx, permits, tested, taskPc, taskResult, taskCount, chan,
                   timedOut, batch, summary, folded, probe,
                   sort_mode, abandoned, runs, loader, probes>>

\* check not called, or called for a domain (by check_batch if `at` is not 0)
CheckAt(pc, domain) ==
    [pc |-> pc, domain |-> domain, fqdn |-> domain, side |-> "system",
     system_ips |-> <<>>, public_ips |-> <<>>,
     queries |-> <<>>,    \* the lookups made so far, in order
     erred |-> FALSE,     \* some lookup has returned a resolution error
     error |-> None, result |-> None,
     domains |-> <<>>,    \* check_batch: its argument
     at |-> 0,            \* check_batch: the place of the domain checked
     checked |-> <<>>,    \* check_batch: its vector `results`
     outcomes |-> <<>>]   \* what check has returned for each domain so far

\* a lookup answered in any way
Lookup(rtype) == LookupFrom(rtype, Responses)

\* the longest slice of domains given to check_batch
MaxBatchDomains == 2

\* the domains of the slices given to check_batch
BatchDomains ==
    { [label |-> "example.com", dots |-> 0], [label |-> "blocked.example", dots |-> 1] }

\* what a lookup of check_batch returns: a resolution error, an answer without
\* records, or an answer of one record
BatchResponses ==
    { Err("Resolver"), Ok(<<>>) } \cup { Ok(<<record>>) : record \in RecordPool }

\* what self.check(domain).await has returned
Outcome(c) == IF c.pc = "done" THEN Ok(c.result.val) ELSE Err(c.error.val)

\* (a loop that ends at the first domain whose check fails)
Collected_StopsAtError(c) ==
    IF Outcome(c).ok
    THEN [c EXCEPT !.checked = Append(@, Outcome(c).val), !.at = @ + 1, !.pc = "next"]
    ELSE [c EXCEPT !.pc = "returned"]

\* the body of the loop of check_batch: `if let Ok(result) = .. { results.push(result) }`
Collected(c) ==
    IF Outcome(c).ok
    THEN [c EXCEPT !.checked = Append(@, Outcome(c).val), !.at = @ + 1, !.pc = "next"]
    ELSE [c EXCEPT !.at = @ + 1, !.pc = "next"]

\* the loop of check_batch takes its next domain and calls check, or ends and
\* check_batch returns its vector
BatchStep ==
    /\ cmp.pc = "next"
    /\ cmp' = IF cmp.at <= Len(cmp.domains)
              THEN [CheckAt("start", cmp.domains[cmp.at]) EXCEPT
                      !.domains = cmp.domains, !.at = cmp.at,
                      !.checked = cmp.checked, !.outcomes = cmp.outcomes]
              ELSE [cmp EXCEPT !.pc = "returned"]
    /\ UNCHANGED <<servers, testing, results, tested_count, total_count, schedPc,
                   idx, permits, tested, taskPc, taskResult, taskCount, chan,
                   timedOut, batch, summary, folded, probe,
                   sort_mode, abandoned, runs, loader, probes>>

\* check has returned to check_batch
BatchCollect ==
    /\ cmp.pc \in {"done", "failed"}
    /\ cmp.at > 0
    /\ cmp' = [Collected(cmp) EXCEPT !.outcomes = Append(@, Outcome(cmp))]
    /\ UNCHANGED <<servers, testing, results, tested_count, total_count, schedPc,
                   idx, permits, tested, taskPc, taskResult, taskCount, chan,
                   timedOut, batch, summary, folded, probe,
                   sort_mode, abandoned, runs, loader, probes>>

----------------------------------------------------------------------------
(* States after construction *)

\* the endpoint lists of the model: the first n endpoints, n = 0..MaxServers
ServerLists == { [i \in 1..n |-> ServerAt(i)] : n \in 0..MaxServers }

\* App::new()
AppIdle ==
    /\ testing = FALSE
    /\ results = <<>>
    /\ tested_count = 0
    /\ total_count = Len(servers)
    /\ schedPc = "idle"
    /\ idx = 0
    /\ permits = 0
    /\ tested = 0
    /\ taskPc = <<>>
    /\ taskResult = <<>>
    /\ taskCount = <<>>
    /\ chan = <<>>
    /\ timedOut = FALSE
    /\ sort_mode = "Latency"
    /\ abandoned = <<>>
    /\ runs = 0

\* run_speed_test not called, or called with an input
BatchAt(pc, input) ==
    [pc |-> pc, input |-> input, servers |-> <<>>, idx |-> 0, results |-> <<>>,
     error |-> None]

\* no arguments, no list file, no default list, no --sort
NoInput ==
    [dns_args |-> <<>>, file |-> None, defaults |-> Err("Config"),
     sort_by_latency |-> FALSE]

BatchIdle == batch = BatchAt("idle", NoInput)

\* test_all called with a list of servers
TestAllAt(list) == [BatchAt("all_loop", NoInput) EXCEPT !.servers = list, !.idx = 1]

AggIdle == summary = NewSummary /\ folded = <<>>

ProbeIdle == probe = ProbeAt("idle", ServerAt(1), DEFAULT_PING_COUNT)

CmpIdle == cmp = CheckAt("idle", [label |-> "example.com", dots |-> 0])

\* from_args or merge not called, or called with arguments or with lists;
\* `file` is what load_from_file returns for the --file of interactive mode
LoaderAt(pc, args, lists) ==
    [pc |-> pc, args |-> args, lists |-> lists, file |-> None, out |-> None,
     again |-> None]

LoaderIdle == loader = LoaderAt("idle", <<>>, <<>>)

ProbesIdle == probes = <<>>

Init ==
    /\ servers \in ServerLists
    /\ AppIdle
    /\ BatchIdle
    /\ AggIdle
    /\ ProbeIdle
    /\ CmpIdle
    /\ LoaderIdle
    /\ ProbesIdle

Next ==
    \/ StartSpeedTest
    \/ Admit
    \/ \E i \in Tasks : TesterFails(i)
    \/ \E i \in Tasks : ProbeComplete(i)
    \/ \E i \in Tasks : SendResult(i)
    \/ \E i \in Tasks : SendProgress(i)
    \/ \E i \in Tasks : DropPermit(i)
    \/ JoinAll
    \/ Timeout

Spec == Init /\ [][Next]_vars

\* test_latency returns before its first await: the address is no IPv4 address
ProbeReturnsAtOnce(i) ==
    /\ ProbeComplete(i)
    /\ ip_addr(servers[i]) # Some("v4")

\* The executor runs every task that can take a step and the timer of the
\* scheduler fires. A probe that waits for the network is not assumed to
\* return, and a tester need never fail.
Fairness ==
    /\ WF_vars(StartSpeedTest)
    /\ WF_vars(Admit)
    /\ WF_vars(JoinAll)
    /\ WF_vars(Timeout)
    /\ \A i \in 1..MaxServers :
         /\ WF_vars(ProbeReturnsAtOnce(i))
         /\ WF_vars(SendResult(i))
         /\ WF_vars(SendProgress(i))
         /\ WF_vars(DropPermit(i))

FairSpec == Spec /\ Fairness

\* the App with its consumer: one run of the scheduler and its tasks, and
\* run_loop handling the messages (the space key is pressed once)
AppNext ==
    \/ runs = 0 /\ StartSpeedTest
    \/ Admit
    \/ \E i \in Tasks : TesterFails(i)
    \/ \E i \in Tasks : ProbeComplete(i)
    \/ \E i \in Tasks : SendResult(i)
    \/ \E i \in Tasks : SendProgress(i)
    \/ \E i \in Tasks : DropPermit(i)
    \/ JoinAll
    \/ Timeout
    \/ HandleMessage

AppSpec == Init /\ [][AppNext]_vars

\* a step of the scheduler, of a task whose probe returns, or of run_loop
\* polling its receiver
AppProgress ==
    \/ Admit
    \/ JoinAll
    \/ HandleMessage
    \/ \E i \in Tasks : ProbeComplete(i)
    \/ \E i \in Tasks : SendResult(i)
    \/ \E i \in Tasks : SendProgress(i)
    \/ \E i \in Tasks : DropPermit(i)

\* The executor keeps running the tasks that can take a step, every probe
\* returns, and run_loop keeps polling. The deadline of the scheduler may
\* elapse or not, and a tester may fail or not.
AppFairness == WF_vars(AppProgress)

FairAppSpec == AppSpec /\ AppFairness

\* the runs one App starts where runs follow one another
MaxRuns == 2

\* the longest endpoint list of an App that starts more than one run
MaxRerunServers == 1

\* an App whose space key is pressed again after a run: the runs of the
\* scheduler, the tasks that outlive their run, and run_loop
RerunInit ==
    /\ servers \in { list \in ServerLists : Len(list) <= MaxRerunServers }
    /\ AppIdle
    /\ BatchIdle
    /\ AggIdle
    /\ ProbeIdle
    /\ CmpIdle
    /\ LoaderIdle
    /\ ProbesIdle

RerunNext ==
    \/ runs < MaxRuns /\ StartSpeedTest
    \/ Admit
    \/ \E i \in Tasks : TesterFails(i)
    \/ \E i \in Tasks : ProbeComplete(i)
    \/ \E i \in Tasks : SendResult(i)
    \/ \E i \in Tasks : SendProgress(i)
    \/ \E i \in Tasks : DropPermit(i)
    \/ JoinAll
    \/ Timeout
    \/ HandleMessage
    \/ \E g \in DOMAIN abandoned, i \in 1..MaxServers : StaleTesterFails(g, i)
    \/ \E g \in DOMAIN abandoned, i \in 1..MaxServers : StaleProbeComplete(g, i)
    \/ \E g \in DOMAIN abandoned, i \in 1..MaxServers : StaleSendResult(g, i)
    \/ \E g \in DOMAIN abandoned, i \in 1..MaxServers : StaleSendProgress(g, i)
    \/ \E g \in DOMAIN abandoned, i \in 1..MaxServers : StaleDropPermit(g, i)

RerunSpec == RerunInit /\ [][RerunNext]_vars

\* the batch driver alone: run_speed_test called with any input, or test_all
\* called with any list of servers
BatchInit ==
    /\ servers = <<>>
    /\ AppIdle
    /\ \/ \E input \in BatchInputs : batch = BatchAt("start", input)
       \/ \E list \in AnyServerLists : batch = TestAllAt(list)
    /\ AggIdle
    /\ ProbeIdle
    /\ CmpIdle
    /\ LoaderIdle
    /\ ProbesIdle

BatchNext ==
    \/ BatchBegin
    \/ BatchProbe
    \/ BatchReport
    \/ TestAllProbe
    \/ TestAllReturn

BatchSpec == BatchInit /\ [][BatchNext]_vars

\* the aggregator alone: summaries built by folding outcomes one by one
AggInit ==
    /\ servers = <<>>
    /\ AppIdle
    /\ BatchIdle
    /\ AggIdle
    /\ ProbeIdle
    /\ CmpIdle
    /\ LoaderIdle
    /\ ProbesIdle

AggNext == Fold

AggSpec == AggInit /\ [][AggNext]_vars

\* the prober alone: test_latency called for any server, on a tester made by
\* new() or by with_settings with any ping_count
ProbeInit ==
    /\ servers = <<>>
    /\ AppIdle
    /\ BatchIdle
    /\ AggIdle
    /\ \E server \in ServerPool, ping_count \in 0..MaxPingCount :
         probe = ProbeAt("start", server, ping_count)
    /\ CmpIdle
    /\ LoaderIdle
    /\ ProbesIdle

ProbeNext ==
    \/ ProbeBegin
    \/ ProbeSend
    \/ ProbeRound

ProbeSpec == ProbeInit /\ [][ProbeNext]_vars

\* the comparator alone: check called for any domain, with resolvers that
\* answer each lookup in any way
CmpInit ==
    /\ servers = <<>>
    /\ AppIdle
    /\ BatchIdle
    /\ AggIdle
    /\ ProbeIdle
    /\ \E domain \in Domains : cmp = CheckAt("start", domain)
    /\ LoaderIdle
    /\ ProbesIdle

CmpNext ==
    \/ CheckBegin
    \/ Lookup("A")
    \/ Lookup("AAAA")

CmpSpec == CmpInit /\ [][CmpNext]_vars

\* check_batch called with any slice of domains
CheckBatchInit ==
    /\ servers = <<>>
    /\ AppIdle
    /\ BatchIdle
    /\ AggIdle
    /\ ProbeIdle
    /\ \E domains \in UNION { [1..n -> BatchDomains] : n \in 0..MaxBatchDomains } :
         cmp = [CheckAt("next", [label |-> "example.com", dots |-> 0]) EXCEPT
                  !.domains = domains, !.at = 1]
    /\ LoaderIdle
    /\ ProbesIdle

CheckBatchNext ==
    \/ BatchStep
    \/ CheckBegin
    \/ LookupFrom("A", BatchResponses)
    \/ LookupFrom("AAAA", BatchResponses)
    \/ BatchCollect

CheckBatchSpec == CheckBatchInit /\ [][CheckBatchNext]_vars

\* the loader alone: from_args called with any arguments, or merge with any
\* lists and then with its own result
LoaderInit ==
    /\ servers = <<>>
    /\ AppIdle
    /\ BatchIdle
    /\ AggIdle
    /\ ProbeIdle
    /\ CmpIdle
    /\ \/ \E args \in ArgLists : loader = LoaderAt("args", args, <<>>)
       \/ \E lists \in UNION { [1..n -> DnsLists] : n \in 0..MaxLists } :
            loader = LoaderAt("lists", <<>>, lists)
    /\ ProbesIdle

LoaderNext ==
    \/ FromArgs
    \/ Merge
    \/ MergeAgain

LoaderSpec == LoaderInit /\ [][LoaderNext]_vars

\* the longest list of a file of interactive mode
MaxFileServers == 1

\* the lists a file of interactive mode can hold
FileLists == { list \in DnsLists : Len(list) <= MaxFileServers }

\* ConfigLoader::load_all: the lists found in the configuration directory, an
\* error if there is none
load_all(found) == IF found = <<>> THEN Err("Config") ELSE Ok(found)

\* App::run before its loop: dns_servers after `if let Ok(lists) = load_all()`
LoadedByRun(dns_servers, found) ==
    IF load_all(found).ok THEN merge(load_all(found).val) ELSE dns_servers

\* run_interactive before app.run(): App::new(), and set_dns_servers with the
\* servers of the file if one is named and loads
RunInteractive ==
    /\ loader.pc = "launch"
    /\ servers' = IF loader.file.some /\ loader.file.val.ok THEN loader.file.val.val
                  ELSE servers
    /\ loader' = [loader EXCEPT !.pc = "set"]
    /\ UNCHANGED <<testing, results, tested_count, total_count, schedPc,
                   idx, permits, tested, taskPc, taskResult, taskCount, chan,
                   timedOut, batch, summary, folded, probe, cmp,
                   sort_mode, abandoned, runs, probes>>

\* App::run up to run_loop: the default lists replace dns_servers if any of
\* them loads, and total_count is the length of dns_servers
AppRun ==
    /\ loader.pc = "set"
    /\ servers' = LoadedByRun(servers, loader.lists)
    /\ total_count' = Len(servers')
    /\ loader' = [loader EXCEPT !.pc = "loop"]
    /\ UNCHANGED <<testing, results, tested_count, schedPc,
                   idx, permits, tested, taskPc, taskResult, taskCount, chan,
                   timedOut, batch, summary, folded, probe, cmp,
                   sort_mode, abandoned, runs, probes>>

\* interactive mode launched with or without a file, which loads or does not,
\* in a configuration directory with any default lists
InteractiveInit ==
    /\ servers = <<>>
    /\ AppIdle
    /\ BatchIdle
    /\ AggIdle
    /\ ProbeIdle
    /\ CmpIdle
    /\ \E file \in {None, Some(Err("Io"))} \cup { Some(Ok(list)) : list \in FileLists } :
       \E found \in UNION { [1..n -> FileLists] : n \in 0..MaxLists } :
          loader = [LoaderAt("launch", <<>>, found) EXCEPT !.file = file]
    /\ ProbesIdle

\* run_interactive, App::run, and in its loop the space key pressed once
InteractiveNext ==
    \/ RunInteractive
    \/ AppRun
    \/ loader.pc = "loop" /\ runs = 0 /\ StartSpeedTest
    \/ Admit
    \/ \E i \in Tasks : TesterFails(i)
    \/ \E i \in Tasks : ProbeComplete(i)
    \/ \E i \in Tasks : SendResult(i)
    \/ \E i \in Tasks : SendProgress(i)
    \/ \E i \in Tasks : DropPermit(i)
    \/ JoinAll
    \/ Timeout

InteractiveSpec == InteractiveInit /\ [][InteractiveNext]_vars

\* the probes of the tasks that hold a permit: as many calls of test_latency
\* as the gate admits, each for any server, running at the same time
CoProbeInit ==
    /\ servers = <<>>
    /\ AppIdle
    /\ BatchIdle
    /\ AggIdle
    /\ ProbeIdle
    /\ CmpIdle
    /\ LoaderIdle
    /\ probes \in [1..MAX_CONCURRENT ->
                     { ProbeAt("start", server, DEFAULT_PING_COUNT) : server \in ServerPool }]

CoProbeNext ==
    \/ \E i \in 1..MAX_CONCURRENT : CoBegin(i)
    \/ \E i \in 1..MAX_CONCURRENT : CoSend(i)
    \/ \E i \in 1..MAX_CONCURRENT : CoRound(i)

CoProbeSpec == CoProbeInit /\ [][CoProbeNext]_vars

\* the consumer alone: handle_message with any message and the sort key
ConsumerInit ==
    /\ servers = <<>>
    /\ AppIdle
    /\ BatchIdle
    /\ AggIdle
    /\ ProbeIdle
    /\ CmpIdle
    /\ LoaderIdle
    /\ ProbesIdle

ConsumerNext ==
    \/ Receive
    \/ SortKey

ConsumerSpec == ConsumerInit /\ [][ConsumerNext]_vars

----------------------------------------------------------------------------
(* The messages of the channel *)

Positions == 1..Len(chan)

IsResult(j) == chan[j].type = "Result"

IsProgress(j) == chan[j].type = "Progress"

IsCompleted(j) == chan[j].type = "Completed"

CompletedCount == Cardinality({ j \in Positions : IsCompleted(j) })

\* the position of the first Completed, or past the end when there is none
DonePos ==
    IF \E j \in Positions : IsCompleted(j)
    THEN CHOOSE j \in Positions : IsCompleted(j) /\ \A k \in 1..(j - 1) : ~IsCompleted(k)
    ELSE Len(chan) + 1

ResultsFrom(i) == { j \in Positions : IsResult(j) /\ chan[j].from = i }

ProgressFrom(i) == { j \in Positions : IsProgress(j) /\ chan[j].from = i }

----------------------------------------------------------------------------
(* Claims *)

\* the permutations of 1..n, for every length n of a fold or of a list of servers
Perms ==
    [n \in 0..(IF MaxFold > MaxServers THEN MaxFold ELSE MaxServers) |->
        { f \in [1..n -> 1..n] : \A i, j \in 1..n : f[i] = f[j] => i = j }]

\* C1: in every state of a run, the tasks admitted by the gate and not yet
\* completed number at most the concurrency limit, for every list length.
C1_BoundedInFlight == Cardinality(InFlight) <= MAX_CONCURRENT

\* C1 witness: the gate is full while the scheduler still has an endpoint to
\* admit.
C1_GateFull ==
    /\ Cardinality(InFlight) = MAX_CONCURRENT
    /\ schedPc = "loop"
    /\ permits = 0

\* C2: once Completed is on the channel, no Result and no Progress is placed
\* after it.
C2_NothingAfterDone == \A j \in Positions : IsCompleted(j) => j = Len(chan)

\* C3: a run that has started eventually sends Completed, also when probes
\* never return and endpoints are still waiting for admission.
C3_DoneEventually == testing ~> (CompletedCount > 0)

\* C4: the tested fields of the Progress messages are non-decreasing in
\* channel order.
C4_TicksNonDecreasing ==
    \A j, k \in Positions :
        (j < k /\ IsProgress(j) /\ IsProgress(k)) => chan[j].tested <= chan[k].tested

\* C5: a run sends Completed at most once, it has sent it exactly once when
\* the scheduler has ended, and it sends it only when every task has finished
\* or the wait has timed out.
C5_ExactlyOneDone ==
    /\ CompletedCount <= 1
    /\ (schedPc = "done" <=> CompletedCount = 1)
    /\ (CompletedCount = 1 =>
          (timedOut \/ \A i \in Tasks : taskPc[i] = "finished"))

\* C5 witness: a run ended by its deadline, with a task still in flight, has
\* sent its one Completed.
C5_DoneByDeadline ==
    /\ schedPc = "done"
    /\ timedOut
    /\ InFlight # {}
    /\ CompletedCount = 1

\* C6: when a run whose deadline did not elapse has sent Completed, every
\* endpoint has exactly one Result and exactly one Progress before it.
C6_OneOutcomePerEndpoint ==
    (CompletedCount > 0 /\ ~timedOut) =>
        \A i \in Tasks :
            /\ Cardinality({ j \in ResultsFrom(i) : j < DonePos }) = 1
            /\ Cardinality({ j \in ProgressFrom(i) : j < DonePos }) = 1

\* C7: the Progress message of a task is preceded on the channel by the
\* Result message of the same task.
C7_ResultBeforeProgress ==
    \A k \in Positions :
        IsProgress(k) => \E j \in 1..(k - 1) : IsResult(j) /\ chan[j].from = chan[k].from

\* the latencies of the successes folded so far, in order
RECURSIVE FoldedLatencies(_)
FoldedLatencies(rs) ==
    IF rs = <<>> THEN <<>>
    ELSE LET rest == FoldedLatencies(SubSeq(rs, 1, Len(rs) - 1))
             r == rs[Len(rs)]
         IN IF r.success THEN Append(rest, r.latency_ms.val.num) ELSE rest

\* C7 witness: two tasks' messages interleave: a Progress is on the channel
\* right after a message of another task.
C7_Interleaved ==
    \E k \in Positions :
        /\ k > 1
        /\ IsProgress(k)
        /\ IsResult(k - 1)
        /\ chan[k - 1].from # chan[k].from

\* what test_latency reports for a server it cannot reach or does not probe
FailureOf(server) ==
    IF ip_addr(server) = None THEN failure(server, "Invalid IP address")
    ELSE IF ip_addr(server) = Some("v6") THEN failure(server, "IPv6 not supported yet")
    ELSE failure(server, "timeout")

\* the results are those of the servers named, one each, in the order named
InInputOrder(rs, named) ==
    /\ Len(rs) = Len(named)
    /\ \A i \in 1..Len(rs) : rs[i].server.ip = named[i].ip

\* the results are those of the servers named, one each, in some order
OnePerServer(rs, named) ==
    /\ Len(rs) = Len(named)
    /\ \E f \in Perms[Len(rs)] : \A i \in 1..Len(rs) : rs[f[i]].server.ip = named[i].ip

\* no result is before a result of a lower latency, or before a result with
\* a latency when it has none
SortedByLatency(rs) ==
    \A i, j \in 1..Len(rs) : i < j => ~LatencyLess(rs[j], rs[i])

\* the batch has ended and every server its input names has one result, a
\* server that failed having its failure as result; the results are in input
\* order, or in the order of their latencies if --sort is given
AllReported ==
    /\ batch.pc = "done"
    /\ OnePerServer(batch.results, NamedServers(batch.input))
    /\ IF batch.input.sort_by_latency
       THEN SortedByLatency(batch.results)
       ELSE InInputOrder(batch.results, NamedServers(batch.input))
    /\ \A i \in 1..Len(batch.results) :
         \/ batch.results[i].success /\ ip_addr(batch.results[i].server) = Some("v4")
         \/ batch.results[i] = FailureOf(batch.results[i].server)

\* the batch ended for a reason that is no endpoint's failure: the list did
\* not load (no file, no default list) or the prober could not be created
EndedWithoutList ==
    /\ batch.pc = "failed"
    /\ batch.error \in {Some("Io"), Some("Config"), Some("Network")}

\* C8 as stated: a batch that ends has probed and reported every endpoint,
\* whatever failed for one of them, an unparseable address included.
C8_NoEndpointAbortsBatch ==
    batch.pc \in {"done", "failed"} => (AllReported \/ EndedWithoutList)

\* C8 as amended: once load_dns_list has returned the list, no failure of an
\* endpoint in test_latency ends the loop, and every endpoint is probed in
\* input order and reported (in that order, or by latency with --sort);
\* but an unparseable address among the command-line arguments makes
\* from_args fail, and then no endpoint at all is probed.
C8_NoProbeFailureAbortsBatch ==
    /\ batch.pc \in {"done", "failed"} =>
          \/ AllReported
          \/ EndedWithoutList
          \/ /\ batch.error = Some("Parse")
             /\ batch.results = <<>>
             /\ \E i \in DOMAIN batch.input.dns_args :
                  ParseIp(SplitArg(batch.input.dns_args[i]).ip) = None
    /\ batch.pc = "loop" =>
          InInputOrder(batch.results, SubSeq(batch.servers, 1, batch.idx - 1))

\* C8 witness: a batch has ended in which an unparseable address and an
\* endpoint that timed out are reported as failures, and an endpoint probed
\* after the unparseable one as a success.
C8_FailuresReported ==
    /\ AllReported
    /\ \E i, j \in 1..Len(batch.results) :
         /\ i < j
         /\ batch.results[i].error = Some("Invalid IP address")
         /\ batch.results[j].success
    /\ \E i \in 1..Len(batch.results) : is_timeout(batch.results[i])

\* C9: after every add_result, from the empty summary on, the three classes
\* add up: success + failed + timeout = total.
C9_ClassesAddUp ==
    /\ summary.success + summary.failed + summary.timeout = summary.total
    /\ summary.total = Len(folded)

\* C9 witness: a summary into which an outcome of each class has been folded.
C9_AllClassesFolded ==
    /\ summary.success > 0
    /\ summary.failed > 0
    /\ summary.timeout > 0

\* C10: after folding, avg_latency is the sum of the latencies of the
\* successes folded so far divided by their number (absent when there is
\* none), whatever the order of folding.
C10_AvgIsMean ==
    LET ls == FoldedLatencies(folded)
    IN summary.avg_latency =
         IF ls = <<>> THEN None ELSE Some(Rat(SumSeq(ls), Len(ls)))

\* C10 witness: three successes of different latencies, with a failure
\* between them, have been folded and the mean is no whole number.
C10_MixedFold ==
    LET ls == FoldedLatencies(folded)
    IN /\ Len(ls) = 3
       /\ Len(folded) > 3
       /\ ls[1] # ls[2]
       /\ summary.avg_latency.some
       /\ summary.avg_latency.val.den # 1

\* the summary of the scenario: A succeeds in 10 ms, B in 20 ms, C times out
ScenarioSummary ==
    [total |-> 3, success |-> 2, failed |-> 0, timeout |-> 1,
     avg_latency |-> Some(Rat(15, 1)), min_latency |-> Some(Rat(10, 1)),
     max_latency |-> Some(Rat(20, 1))]

\* the outcomes folded are those of the scenario, in some order
ScenarioFolded ==
    /\ Len(folded) = 3
    /\ \E i \in 1..3 : folded[i].success /\ folded[i].latency_ms = Some(Rat(10, 1))
    /\ \E i \in 1..3 : folded[i].success /\ folded[i].latency_ms = Some(Rat(20, 1))
    /\ \E i \in 1..3 : is_timeout(folded[i])

\* C11: the summary depends on the outcomes folded and not on their order:
\* folding them in any other order gives the same summary; and the outcomes
\* success 10 ms, success 20 ms, timeout give, in every order, total 3,
\* success 2, timeout 1, failed 0, average 15, minimum 10, maximum 20.
C11_OrderIndependent ==
    /\ \A f \in Perms[Len(folded)] :
         summarize([i \in 1..Len(folded) |-> folded[f[i]]]) = summary
    /\ ScenarioFolded => summary = ScenarioSummary

\* C11 witness: the scenario's outcomes delivered with the timeout first and
\* the slower success before the faster one.
C11_ScenarioReordered ==
    /\ ScenarioFolded
    /\ is_timeout(folded[1])
    /\ folded[2].latency_ms = Some(Rat(20, 1))
    /\ summary = ScenarioSummary

\* an outcome has a latency and no error when it is a success, and an error
\* and no latency when it is not
WellFormed(result) ==
    /\ result.success => (result.latency_ms.some /\ ~result.error.some)
    /\ ~result.success => (~result.latency_ms.some /\ result.error.some)

\* C12: every outcome the prober has returned to a task, and every outcome
\* delivered on the channel, is well formed: a latency and no error if it is
\* a success, an error and no latency if it is not.
C12_OutcomesWellFormed ==
    /\ \A i \in Tasks : taskResult[i].some => WellFormed(taskResult[i].val)
    /\ \A j \in Positions : IsResult(j) => WellFormed(chan[j].result)

\* C12 witness: a success and a failure have both been delivered.
C12_BothKindsDelivered ==
    /\ \E j \in Positions : IsResult(j) /\ chan[j].result.success
    /\ \E j \in Positions : IsResult(j) /\ ~chan[j].result.success

\* the number of successes among the outcomes folded
RECURSIVE CountSuccess(_)
CountSuccess(rs) ==
    IF rs = <<>> THEN 0
    ELSE (IF Head(rs).success THEN 1 ELSE 0) + CountSuccess(Tail(rs))

\* C20: success_rate is 0 for a summary without outcomes and the percentage
\* 100 * successes / outcomes otherwise, and lies between 0 and 100 for every
\* summary built by folding.
C20_RateIsPercentage ==
    LET rate == success_rate(summary)
    IN /\ folded = <<>> => rate = Rat(0, 1)
       /\ folded # <<>> => rate = Rat(100 * CountSuccess(folded), Len(folded))
       /\ RatLe(Rat(0, 1), rate)
       /\ RatLe(rate, Rat(100, 1))

\* C20 witness: a summary of three outcomes of which two are successes, whose
\* rate is no whole number.
C20_TwoOfThree ==
    /\ Len(folded) = 3
    /\ summary.success = 2
    /\ success_rate(summary) = Rat(200, 3)

\* a system address matches: it is in the reference set or in the allow-list
Matches(ip) == ip \in SetOf(cmp.public_ips) \cup PUBLIC_DNS_IPS

\* check has returned a result for which both resolvers gave an address
BothAnswered ==
    /\ cmp.pc = "done"
    /\ cmp.system_ips # <<>>
    /\ cmp.public_ips # <<>>

C14_EmptyIsClean ==
    (cmp.pc = "done" /\ (cmp.system_ips = <<>> \/ cmp.public_ips = <<>>)) =>
        /\ cmp.result.some
        /\ ~cmp.result.val.is_polluted
        /\ cmp.result.val.details.text = "Both returned similar results"

\* C14 witness: the system resolver returned an address outside the
\* allow-list, the reference resolver returned none, and the verdict is
\* polluted = false.
C14_NoReferenceAddress ==
    /\ cmp.pc = "done"
    /\ cmp.public_ips = <<>>
    /\ cmp.system_ips # <<>>
    /\ \A i \in DOMAIN cmp.system_ips : cmp.system_ips[i] \notin PUBLIC_DNS_IPS
    /\ ~cmp.result.val.is_polluted

\* C15: when both resolvers returned an address, equal sets of addresses give
\* polluted = false, and disjoint sets with no system address in the
\* allow-list give polluted = true.
C15_IdenticalCleanDisjointPolluted ==
    BothAnswered =>
        /\ SetOf(cmp.system_ips) = SetOf(cmp.public_ips) => ~cmp.result.val.is_polluted
        /\ (/\ SetOf(cmp.system_ips) \cap SetOf(cmp.public_ips) = {}
            /\ SetOf(cmp.system_ips) \cap PUBLIC_DNS_IPS = {}) =>
              cmp.result.val.is_polluted

\* C15 witness: the two resolvers returned the same set of addresses, none of
\* the allow-list, in lists that differ, and the verdict is polluted = false.
C15_SameSetOtherOrder ==
    /\ BothAnswered
    /\ SetOf(cmp.system_ips) = SetOf(cmp.public_ips)
    /\ cmp.system_ips # cmp.public_ips
    /\ SetOf(cmp.system_ips) \cap PUBLIC_DNS_IPS = {}
    /\ ~cmp.result.val.is_polluted

\* C16: when a lookup of either resolver returned a resolution error, check
\* returns that error and no result, so no verdict polluted = false; and it
\* returns a result only when no lookup erred.
C16_ErrorIsNoVerdict ==
    /\ cmp.erred => (cmp.pc = "failed" /\ cmp.error.some /\ ~cmp.result.some)
    /\ cmp.pc = "failed" => cmp.erred
    /\ cmp.result.some => (cmp.pc = "done" /\ ~cmp.erred)

\* C16 witness: the system resolver has answered with an address, a lookup of
\* the reference resolver has erred, and check has returned the error.
C16_ReferenceLookupErred ==
    /\ cmp.pc = "failed"
    /\ cmp.erred
    /\ cmp.system_ips # <<>>
    /\ cmp.side = "public"
    /\ ~cmp.result.some

\* the rounds of the log that ended in a reply
Replies(log) == { k \in DOMAIN log : log[k].kind = "reply" }

\* C17: for a server whose address does not parse or is an IPv6 address, the
\* prober returns a failure without sending an echo request; the reason is
\* not "timeout", so that the aggregator counts it as failed and not as timed
\* out. Only a probe of an IPv4 address sends a request.
C17_RefusedWithoutEcho ==
    /\ (probe.pc = "done" /\ ip_addr(probe.server) # Some("v4")) =>
          /\ probe.sent = 0
          /\ probe.log = <<>>
          /\ probe.result.some
          /\ ~probe.result.val.success
          /\ probe.result.val.error \in {Some("Invalid IP address"),
                                         Some("IPv6 not supported yet")}
          /\ ~is_timeout(probe.result.val)
          /\ add_result(NewSummary, probe.result.val).failed = 1
          /\ add_result(NewSummary, probe.result.val).timeout = 0
    /\ (probe.sent > 0 \/ probe.pc \in {"send", "wait"}) =>
          ip_addr(probe.server) = Some("v4")

\* C17 witness: the probe of an IPv6 address has returned its failure.
C17_V6Refused ==
    /\ probe.pc = "done"
    /\ ip_addr(probe.server) = Some("v6")
    /\ probe.sent = 0
    /\ probe.result = Some(failure(probe.server, "IPv6 not supported yet"))

\* C18: for an IPv4 address and at least one attempt, the probe makes every
\* attempt; if no round succeeded it returns the failure "timeout" with
\* packet loss 1; otherwise it returns a success whose packet loss is
\* 1 - successes / attempts, at least 0 and less than 1, and 0 exactly when
\* every round succeeded.
C18_LossIsShareOfLostRounds ==
    (probe.pc = "done" /\ ip_addr(probe.server) = Some("v4") /\ probe.ping_count >= 1) =>
        LET n == probe.ping_count
            k == Cardinality(Replies(probe.log))
            r == probe.result.val
        IN /\ Len(probe.log) = n
           /\ probe.sent = n
           /\ probe.result.some
           /\ k = 0 => (r = failure(probe.server, "timeout") /\ r.packet_loss = Rat(1, 1))
           /\ k > 0 =>
                /\ r.success
                /\ r.packet_loss = Rat(n - k, n)
                /\ RatLe(Rat(0, 1), r.packet_loss)
                /\ RatLt(r.packet_loss, Rat(1, 1))
                /\ (r.packet_loss = Rat(0, 1) <=> k = n)
           /\ n = DEFAULT_PING_COUNT => r = test_latency(probe.server, probe.log)

\* C18 witness: a probe of three attempts of which one succeeded has returned
\* a success with packet loss 2/3.
C18_OneOfThree ==
    /\ probe.pc = "done"
    /\ probe.ping_count = 3
    /\ Cardinality(Replies(probe.log)) = 1
    /\ probe.result.val.success
    /\ probe.result.val.packet_loss = Rat(2, 3)

\* C19 as stated: a batch driver that has ended its loop has exactly one
\* outcome for every endpoint of its list, in input order, and the summary's
\* total is the number of endpoints.
C19_OnePerEndpointInInputOrder ==
    /\ batch.pc \in {"done", "all_done"} => InInputOrder(batch.results, batch.servers)
    /\ batch.pc = "done" => summary.total = Len(batch.servers)

\* C19 as amended: test_all returns exactly one outcome for every endpoint of
\* its list, in input order. run_speed_test, once the list is loaded and the
\* prober created, probes the endpoints in input order and reports exactly
\* one outcome for each, so that the summary's total is the number of
\* endpoints; the outcomes reported are in input order unless --sort is
\* given, and then they are in the order of their latencies, the outcomes
\* without a latency last. When the list does not load or the prober cannot
\* be created, it returns the error and no outcome.
C19_OnePerEndpoint ==
    /\ batch.pc \in {"loop", "all_loop"} =>
          InInputOrder(batch.results, SubSeq(batch.servers, 1, batch.idx - 1))
    /\ batch.pc = "all_done" => InInputOrder(batch.results, batch.servers)
    /\ batch.pc = "done" =>
          /\ OnePerServer(batch.results, batch.servers)
          /\ summary.total = Len(batch.servers)
          /\ summary = summarize(batch.results)
          /\ IF batch.input.sort_by_latency
             THEN SortedByLatency(batch.results)
             ELSE InInputOrder(batch.results, batch.servers)
    /\ batch.pc = "failed" => (batch.results = <<>> /\ batch.error.some)

\* C19 witness: a batch run with --sort has ended with one outcome for each
\* of its three endpoints, and a success is reported before the failure of an
\* endpoint that was named before it.
C19_SortedReport ==
    /\ batch.pc = "done"
    /\ batch.input.sort_by_latency
    /\ Len(batch.servers) = 3
    /\ OnePerServer(batch.results, batch.servers)
    /\ ~InInputOrder(batch.results, batch.servers)
    /\ summary.total = 3

\* the addresses of the servers of a list
IpsOf(list) == { list[i].ip : i \in DOMAIN list }

\* C21: the list merge returns has no two servers with the same address, and
\* every address of every list merged is the address of exactly one of its
\* servers, and of no other address is; merging the merged list again
\* returns it unchanged.
C21_MergeDedupes ==
    /\ loader.pc \in {"merged", "mergedAgain"} =>
          LET merged == loader.out.val
              given == UNION { IpsOf(loader.lists[k]) : k \in DOMAIN loader.lists }
          IN /\ \A i, j \in DOMAIN merged : merged[i].ip = merged[j].ip => i = j
             /\ IpsOf(merged) = given
             /\ \A ip \in given : Cardinality({ i \in DOMAIN merged : merged[i].ip = ip }) = 1
    /\ loader.pc = "mergedAgain" => loader.again = loader.out

\* C21 witness: two lists were merged in which an address occurs in both,
\* with another address between its occurrences, and the merged list has been
\* merged again.
C21_SharedAddressMerged ==
    /\ loader.pc = "mergedAgain"
    /\ Len(loader.lists) = 2
    /\ Len(loader.lists[1]) = 2
    /\ loader.lists[1][1].ip = "8.8.8.8"
    /\ loader.lists[1][2].ip = "1.1.1.1"
    /\ Len(loader.lists[2]) >= 1
    /\ loader.lists[2][1].ip = "8.8.8.8"
    /\ Len(loader.out.val) = 2

\* what each argument of the model is to be read as: its address, and its
\* name if it has a '#'
ReadAs(s) ==
    CASE s = <<"8.8.8.8">> -> [ip |-> "8.8.8.8", name |-> None]
      [] s = <<"8.8.8.8", "#", "Google">> -> [ip |-> "8.8.8.8", name |-> Some("Google")]
      [] s = <<" ", "1.1.1.1", " ", "#", " ", "Cloudflare", " ">> ->
             [ip |-> "1.1.1.1", name |-> Some("Cloudflare")]
      [] s = <<"invalid_ip", "#", "Test">> -> [ip |-> "invalid_ip", name |-> Some("Test")]
      [] s = <<"::1", "#", "Public", "#", "1">> -> [ip |-> "::1", name |-> Some("Public#1")]
      [] s = <<"1.1.1.1", "#">> -> [ip |-> "1.1.1.1", name |-> Some("")]
      [] s = <<"#", "Google">> -> [ip |-> "", name |-> Some("Google")]

\* C22: from_args returns an error, and no list, if the address of any
\* argument is no valid IP address; otherwise it returns one server for each
\* argument, in the order of the arguments, named by the text after the
\* first '#', or by the address when there is no '#'.
C22_AllOrNothing ==
    loader.pc = "argsDone" =>
        LET args == loader.args
            out == loader.out.val
        IN IF \E i \in DOMAIN args : ReadAs(args[i]).ip \notin {"8.8.8.8", "1.1.1.1", "::1"}
           THEN out = Err("Parse")
           ELSE /\ out.ok
                /\ Len(out.val) = Len(args)
                /\ \A i \in DOMAIN args :
                     /\ out.val[i].ip = ReadAs(args[i]).ip
                     /\ out.val[i].name =
                          IF ReadAs(args[i]).name.some
                          THEN ReadAs(args[i]).name.val
                          ELSE ReadAs(args[i]).ip

\* C22 witness: from_args has returned an error for three arguments of which
\* the first is valid and the last is not.
C22_LastArgumentInvalid ==
    /\ loader.pc = "argsDone"
    /\ Len(loader.args) = 3
    /\ loader.args[1] = <<"8.8.8.8">>
    /\ loader.args[3] = <<"invalid_ip", "#", "Test">>
    /\ loader.out = Some(Err("Parse"))

\* C23: each add_result adds one to total and one to exactly one of success,
\* timeout and failed; folding an outcome that is no success leaves success,
\* avg_latency, min_latency and max_latency as they are; and the outcome is
\* counted as a timeout exactly when it is a failure whose reason is
\* "timeout".
C23_FoldFrame ==
    [][Len(folded') = Len(folded) + 1 =>
        LET r == folded'[Len(folded')]
            ds == summary'.success - summary.success
            dt == summary'.timeout - summary.timeout
            df == summary'.failed - summary.failed
        IN /\ summary'.total = summary.total + 1
           /\ {ds, dt, df} \subseteq {0, 1}
           /\ ds + dt + df = 1
           /\ ds = 1 <=> r.success
           /\ dt = 1 <=> (~r.success /\ r.error = Some("timeout"))
           /\ ~r.success =>
                /\ summary'.avg_latency = summary.avg_latency
                /\ summary'.min_latency = summary.min_latency
                /\ summary'.max_latency = summary.max_latency]_vars

\* C23 witness: a failure whose reason is not "timeout" has been folded after
\* two successes of different latencies.
C23_FailureAfterSuccesses ==
    /\ Len(folded) = 3
    /\ folded[1].success
    /\ folded[2].success
    /\ folded[1].latency_ms # folded[2].latency_ms
    /\ folded[3].error = Some("Invalid IP address")
    /\ summary.failed = 1
    /\ summary.timeout = 0
    /\ summary.avg_latency.some

\* C24: a probe of an IPv4 address issues exactly ping_count rounds whatever
\* their results, and a round is started only when the round before it has
\* ended, so that at most one echo request of the call is outstanding.
C24_RoundsOneByOne ==
    LET outstanding == probe.sent - Len(probe.log)
    IN /\ outstanding \in {0, 1}
       /\ outstanding = 1 <=> probe.pc = "wait"
       /\ probe.sent <= probe.ping_count
       /\ probe.pc = "send" => (probe.sent = probe.seq /\ probe.seq < probe.ping_count)
       /\ (probe.pc = "done" /\ ip_addr(probe.server) = Some("v4")) =>
             /\ probe.sent = probe.ping_count
             /\ Len(probe.log) = probe.ping_count

\* C24 witness: the third round of a probe is outstanding after a reply and a
\* timeout.
C24_ThirdRoundOutstanding ==
    /\ probe.pc = "wait"
    /\ probe.sent = 3
    /\ Len(probe.log) = 2
    /\ probe.log[1].kind = "reply"
    /\ probe.log[2].kind = "timeout"

\* C25: two echo requests that are outstanding at the same time, of probes
\* that run at the same time, never have the same identifier and the same
\* sequence number.
C25_DistinctEchoIds ==
    \A i, j \in DOMAIN probes :
        (i # j /\ probes[i].pc = "wait" /\ probes[j].pc = "wait") =>
            <<probes[i].ident, probes[i].seq % 65536>> #
                <<probes[j].ident, probes[j].seq % 65536>>

\* C27: whatever outcomes a run has delivered so far, the statistics that
\* get_stats recomputes from the result list of the consumer (the outcomes in
\* the order of the sort mode) are the total, success, failed and timeout
\* counts and the average, minimum and maximum latency of the TestSummary that
\* add_result has folded from the same outcomes.
C27_StatsMatchSummary ==
    \A mode \in SortModes : get_stats(sort_results(folded, mode)) = summary

\* C27 witness: the outcomes are two successes of different latencies, a
\* timeout and another failure.
C27_MixedOutcomes ==
    /\ \E i, j \in DOMAIN folded :
          /\ folded[i].success
          /\ folded[j].success
          /\ folded[i].latency_ms # folded[j].latency_ms
    /\ \E i \in DOMAIN folded : is_timeout(folded[i])
    /\ \E i \in DOMAIN folded : ~folded[i].success /\ ~is_timeout(folded[i])

\* C26: once a run has been started, the result list holds only outcomes of
\* the endpoints of the list that is probed, at most one per endpoint, and it
\* is never longer than total_count, also in a run that follows a run ended by
\* its deadline.
C26_FreshResults ==
    runs > 0 =>
        /\ \A i \in DOMAIN results : \E k \in DOMAIN servers : results[i].server = servers[k]
        /\ \A i, j \in DOMAIN results :
               results[i].server = results[j].server => i = j
        /\ Len(results) <= total_count

\* C29: tested_count never decreases from one handled message to the next.
C29_CountNeverDecreases ==
    [][Len(chan') < Len(chan) => tested_count' >= tested_count]_vars

\* C30: tested_count never exceeds total_count.
C30_CountWithinTotal == tested_count <= total_count

\* C28: when every probe returns and scheduling is fair, every task gives its
\* permit back when it ends, every endpoint is eventually admitted, Completed
\* is eventually sent, and the consumer that keeps polling eventually leaves
\* the testing state.
C28_RunEnds ==
    /\ [](schedPc \in {"loop", "join"} =>
             permits + Cardinality(InFlight) = MAX_CONCURRENT)
    /\ testing ~> (/\ ~testing
                   /\ schedPc = "done"
                   /\ \A i \in Tasks : taskPc[i] # "none")

\* C28 witness: a run of more endpoints than permits has ended before its
\* deadline with every task finished, and the consumer has left the testing
\* state.
C28_LongRunEnded ==
    /\ runs = 1
    /\ Len(servers) > MAX_CONCURRENT
    /\ schedPc = "done"
    /\ ~timedOut
    /\ \A i \in Tasks : taskPc[i] = "finished"
    /\ ~testing
    /\ chan = <<>>

\* a run has ended before its deadline with the probe of every task returned,
\* and the consumer has handled its Completed
RunHandled ==
    /\ runs > 0
    /\ schedPc = "done"
    /\ ~timedOut
    /\ \A i \in Tasks : taskPc[i] = "finished" /\ taskResult[i].some
    /\ ~testing

\* C31: when the consumer has handled Completed of a run in which every task
\* completed before the deadline, tested_count is the length of the result
\* list and is total_count.
C31_CountsAgreeAtEnd ==
    RunHandled => (tested_count = Len(results) /\ tested_count = total_count)

\* the tested fields of the Progress messages sent so far
TickValues == { chan[j].tested : j \in { k \in Positions : IsProgress(k) } }

\* C32: within one run the tested fields of the Progress messages are pairwise
\* distinct and lie in 1..total; when all n tasks have completed they are
\* exactly 1..n; every Progress carries the number of endpoints as total.
C32_TicksDistinct ==
    /\ \A j, k \in Positions :
          (IsProgress(j) /\ IsProgress(k) /\ chan[j].tested = chan[k].tested) => j = k
    /\ \A j \in Positions :
          IsProgress(j) =>
             /\ chan[j].total = Len(servers)
             /\ chan[j].tested \in 1..chan[j].total
    /\ (runs > 0 /\ \A i \in Tasks : taskPc[i] = "finished" /\ taskResult[i].some) =>
          TickValues = 1..Len(servers)

\* C32 witness: the three tasks of a run have completed and their Progress
\* messages are on the channel out of the order of their counts.
C32_AllTicksOutOfOrder ==
    /\ runs > 0
    /\ Len(servers) = 3
    /\ \A i \in Tasks : taskPc[i] = "finished" /\ taskResult[i].some
    /\ \E j, k \in Positions :
          j < k /\ IsProgress(j) /\ IsProgress(k) /\ chan[j].tested > chan[k].tested

\* the runs whose Completed is not sent yet or is sent and not handled yet
PendingDone ==
    (IF schedPc \in {"loop", "join"} THEN 1 ELSE 0)
        + Cardinality({ j \in Positions : IsCompleted(j) })

OrderedBy(rs, mode) ==
    \A i, j \in DOMAIN rs : i < j => ~SortLess(mode, rs[j], rs[i])

\* C34: after every handled message and every press of the sort key the
\* result list is in the order of the current sort mode; in latency mode every
\* success is before every failure and the latencies of the successes do not
\* decrease; three presses of the sort key give the mode back.
C34_ListKeptSorted ==
    /\ OrderedBy(results, sort_mode)
    /\ sort_mode = "Latency" =>
          \A i, j \in DOMAIN results :
              i < j =>
                 /\ results[j].success => results[i].success
                 /\ (results[i].success /\ results[j].success) =>
                       RatLe(results[i].latency_ms.val, results[j].latency_ms.val)
    /\ \A mode \in SortModes :
          /\ NextSortMode(NextSortMode(NextSortMode(mode))) = mode
          /\ NextSortMode(mode) # mode

\* C34 witness: in name mode the list holds three results that are not in the
\* order of their latencies.
C34_ByNameNotByLatency ==
    /\ sort_mode = "Name"
    /\ Len(results) = 3
    /\ ~OrderedBy(results, "Latency")

\* the latencies of the successes folded so far
SuccessLatencies ==
    { folded[i].latency_ms.val : i \in { k \in DOMAIN folded : folded[k].success } }

Rearranged(ips) ==
    { l \in UNION { [1..n -> SetOf(ips)] : n \in 0..MaxRecords + 1 } :
        SetOf(l) = SetOf(ips) }

QueriesOf(side) == SelectSeq(cmp.queries, LAMBDA q : q.resolver = side)

\* the addresses that the records of the given types of an answer hold
Yield(response, rtypes) ==
    LET kept == SelectSeq(response.val, LAMBDA r : r.rtype \in rtypes)
    IN [i \in 1..Len(kept) |-> kept[i].ip]

\* resolve_with has returned its addresses for the resolver
Finished(side) ==
    IF side = "system" THEN cmp.side = "public" \/ cmp.pc = "done"
    ELSE cmp.pc = "done"

\* the addresses resolve_with returned for the resolver
Returned(side) == IF side = "system" THEN cmp.system_ips ELSE cmp.public_ips

\* C37: each resolver is asked for A records first and for AAAA records only
\* when the answer to the A query held no address; the addresses returned are
\* those of the A answer, or those of the AAAA answer when it was asked for,
\* never both; an error of either lookup fails the resolution.
C37_AThenAAAA ==
    \A side \in {"system", "public"} :
        LET qs == QueriesOf(side)
        IN /\ Len(qs) <= 2
           /\ Len(qs) >= 1 => qs[1].rtype = "A"
           /\ Len(qs) = 2 =>
                 /\ qs[2].rtype = "AAAA"
                 /\ qs[1].response.ok
                 /\ Yield(qs[1].response, {"A", "AAAA"}) = <<>>
           /\ (\E i \in DOMAIN qs : ~qs[i].response.ok) =>
                 (cmp.pc = "failed" /\ cmp.side = side /\ ~cmp.result.some)
           /\ Finished(side) =>
                 /\ Len(qs) >= 1
                 /\ \A i \in DOMAIN qs : qs[i].response.ok
                 /\ Len(qs) = 1 =>
                       /\ Yield(qs[1].response, {"A", "AAAA"}) # <<>>
                       /\ Returned(side) = Yield(qs[1].response, {"A", "AAAA"})
                 /\ Len(qs) = 2 => Returned(side) = Yield(qs[2].response, {"AAAA"})

\* C37 witness: the system resolver had no address for the A query and an
\* IPv6 address for the AAAA query, and the public resolver answered the A
\* query with an address.
C37_SystemFellBack ==
    /\ cmp.pc = "done"
    /\ Len(QueriesOf("system")) = 2
    /\ cmp.system_ips # <<>>
    /\ Len(QueriesOf("public")) = 1

\* C38: both resolvers are asked for the same name, which is the input with a
\* dot appended only if it ends with none; the domain of the result is the
\* input without trailing dot; making a qualified name qualified changes
\* nothing.
C38_QueriedQualified ==
    /\ \A i \in DOMAIN cmp.queries :
          /\ cmp.queries[i].name.label = cmp.domain.label
          /\ cmp.queries[i].name.dots = (IF cmp.domain.dots = 0 THEN 1 ELSE cmp.domain.dots)
          /\ cmp.queries[i].name = cmp.queries[1].name
          /\ qualified(cmp.queries[i].name) = cmp.queries[i].name
    /\ cmp.pc = "done" =>
          /\ cmp.result.val.domain = [label |-> cmp.domain.label, dots |-> 0]
          /\ { cmp.queries[i].resolver : i \in DOMAIN cmp.queries } = {"system", "public"}

\* C38 witness: a check of an input that ends with a dot has asked both
\* resolvers and returned its result.
C38_QualifiedInput ==
    /\ cmp.pc = "done"
    /\ cmp.domain.dots = 1
    /\ cmp.result.some
    /\ Len(cmp.queries) >= 2

\* C39: when interactive mode is started with a list file that loads, the
\* endpoints of a run started in the event loop are the servers of that file.
C39_FileListProbed ==
    (/\ loader.pc = "loop"
     /\ loader.file.some /\ loader.file.val.ok
     /\ runs > 0)
    => /\ servers = loader.file.val.val
       /\ \A i \in Tasks : taskPc[i] # "none" => servers[i] \in { loader.file.val.val[k] : k \in DOMAIN loader.file.val.val }

RECURSIVE Succeeded(_)
\* the results of the checks that returned a result, in the order of the checks
Succeeded(outcomes) ==
    IF outcomes = <<>> THEN <<>>
    ELSE IF Head(outcomes).ok THEN <<Head(outcomes).val>> \o Succeeded(Tail(outcomes))
    ELSE Succeeded(Tail(outcomes))

\* C40: check_batch returns the results of exactly the domains whose check
\* succeeded, in the order of its input; a domain whose check fails is skipped
\* and the domains after it are checked; the output is never longer than the
\* input.
C40_BatchKeepsSucceeded ==
    /\ Len(cmp.checked) <= Len(cmp.domains)
    /\ cmp.checked = Succeeded(cmp.outcomes)
    /\ \A i \in DOMAIN cmp.outcomes :
          cmp.outcomes[i].ok => cmp.outcomes[i].val.domain = trim_end_dots(cmp.domains[i])
    /\ cmp.pc = "returned" => Len(cmp.outcomes) = Len(cmp.domains)

\* C40 witness: check_batch has returned one result for two domains: the check
\* of the first failed and the check of the second succeeded.
C40_FirstSkipped ==
    /\ cmp.pc = "returned"
    /\ Len(cmp.domains) = 2
    /\ ~cmp.outcomes[1].ok
    /\ cmp.outcomes[2].ok
    /\ cmp.checked = <<cmp.outcomes[2].val>>
    /\ cmp.domains[1] # cmp.domains[2]

====
